---- MODULE Spec2Model ----
(***************************************************************************)
(* Model of the PUML comparison engine (src/src/comparator.py).            *)
(*                                                                         *)
(* Strings are sequences of one-character strings.  Python floats are      *)
(* modelled as exact rationals <<numerator, denominator>> in lowest terms  *)
(* with a positive denominator.  Thresholds are rationals as well.         *)
(***************************************************************************)
EXTENDS Integers, Sequences, FiniteSets, TLC

VARIABLES
    pc,               \* position: which operation has run
    etalon,           \* reference class dictionary of one comparison
    student,          \* candidate class dictionary of one comparison
    class_threshold,  \* class_threshold argument
    attr_threshold,   \* attr_threshold argument
    result,           \* the dictionary returned by the comparison
    class_pairs,      \* <<etalon key, student key>> recorded by class alignment
    attr_pairs,       \* <<etalon key, student key>> whose attributes were compared
    earlier,          \* outcome of the previous comparison of the same models
    etalon_files,     \* etalon_files argument of compare_batch
    student_files,    \* student_files argument of compare_batch
    batch,            \* outcome of compare_batch
    puml_files,       \* puml_files argument of auto_pair_files
    json_files,       \* json_files argument of auto_pair_files
    pairing,          \* outcome of auto_pair_files
    session_ids,      \* the ids returned by init_session, in order
    manifests,        \* SessionManager._manifests
    uploads_dir,      \* the files under UPLOAD_DIR: <<session id, file name>>
    saved,            \* what save_uploaded_file returned, with the session
    attr_raw,         \* a raw attribute string
    attr_once,        \* normalize_attribute of it
    attr_twice,       \* normalize_attribute of that
    entities,         \* the "entities" list of a JSON document
    parsed,           \* the class dictionary parse_json_diagram returns for it
    results_files,    \* the results.json of the session directories that have one
    kept,             \* per session, the payload stored since its last cleanup
    saving,           \* the save_uploaded_file that has written but not registered
    cleaning,         \* the cleanup_session that has removed but not popped
    comparisons,      \* the results argument of normalize_attribute_scores
    normalized,       \* what normalize_attribute_scores returns for it
    etalon_list,      \* the etalon_attrs argument of _match_attributes
    student_list,     \* the student_attrs argument of _match_attributes
    match_threshold,  \* the threshold argument of _match_attributes
    matching,         \* what _match_attributes returns, with its two index sets
    matched_pairs     \* <<e_idx, s_idx>> of each match it made, in order

comparison_vars == <<etalon, student, class_threshold, attr_threshold, result,
                     class_pairs, attr_pairs, earlier>>
batch_vars == <<etalon_files, student_files, batch>>
pairing_vars == <<puml_files, json_files, pairing>>

session_vars == <<session_ids, manifests, uploads_dir, saved>>

normalize_vars == <<attr_raw, attr_once, attr_twice>>

parse_vars == <<entities, parsed>>

lifecycle_vars == <<results_files, kept, saving, cleaning>>

\* the variables of the specifications that come after parsing
score_vars == <<comparisons, normalized>>

\* the variables of the specification of _match_attributes alone
attribute_vars == <<etalon_list, student_list, match_threshold, matching,
                    matched_pairs>>

rest_vars == <<lifecycle_vars, score_vars, attribute_vars>>

vars == <<pc, comparison_vars, batch_vars, pairing_vars, session_vars,
          normalize_vars, parse_vars, rest_vars>>

(***************************************************************************)
(* Bounds of the model.                                                    *)
(***************************************************************************)
MaxEtalonClasses == 2
MaxStudentClasses == 2
MaxEtalonAttrs == 1
MaxStudentAttrs == 1
MaxEtalonFiles == 2
MaxStudentFiles == 2
MaxPumlUploads == 2
MaxJsonUploads == 2
MaxSessions == 2
MaxSaved == 3
MaxRawLen == 4
MaxEntities == 2
MaxComparisons == 2
MaxListedAttrs == 2

(***************************************************************************)
(* Exact rational arithmetic standing for Python float arithmetic.         *)
(***************************************************************************)
Abs(x) == IF x < 0 THEN -x ELSE x

RECURSIVE Gcd(_, _)
Gcd(a, b) == IF b = 0 THEN a ELSE Gcd(b, a % b)

Sign(x) == IF x < 0 THEN -1 ELSE 1

\* n/d divided through by g, with a positive denominator
Reduced(n, d, g) == <<(Sign(d) * n) \div g, (Sign(d) * d) \div g>>

Rat(n, d) == Reduced(n, d, Gcd(Abs(n), Abs(d)))

Zero == <<0, 1>>
One == <<1, 1>>
Two == <<2, 1>>
Hundred == <<100, 1>>

RAdd(x, y) == Rat(x[1] * y[2] + y[1] * x[2], x[2] * y[2])
RMul(x, y) == Rat(x[1] * y[1], x[2] * y[2])
RDiv(x, y) == Rat(x[1] * y[2], x[2] * y[1])
RLe(x, y) == x[1] * y[2] <= y[1] * x[2]
RLt(x, y) == x[1] * y[2] < y[1] * x[2]

(***************************************************************************)
(* Strings.                                                                *)
(***************************************************************************)
UpperChars == <<"A", "B", "C", "D", "E", "F", "G", "H", "I", "J", "K", "L", "M",
                "N", "O", "P", "Q", "R", "S", "T", "U", "V", "W", "X", "Y", "Z">>
LowerChars == <<"a", "b", "c", "d", "e", "f", "g", "h", "i", "j", "k", "l", "m",
                "n", "o", "p", "q", "r", "s", "t", "u", "v", "w", "x", "y", "z">>

LowerChar(c) ==
    IF \E k \in 1..Len(UpperChars) : UpperChars[k] = c
    THEN LowerChars[CHOOSE k \in 1..Len(UpperChars) : UpperChars[k] = c]
    ELSE c

\* str.lower()
RECURSIVE Lower(_)
Lower(s) == IF s = <<>> THEN <<>> ELSE <<LowerChar(Head(s))>> \o Lower(Tail(s))

\* str.strip() for the only whitespace character of the model's alphabet
RECURSIVE LStrip(_)
LStrip(s) == IF s # <<>> /\ Head(s) = " " THEN LStrip(Tail(s)) ELSE s

RECURSIVE RStrip(_)
RStrip(s) ==
    IF s # <<>> /\ s[Len(s)] = " " THEN RStrip(SubSeq(s, 1, Len(s) - 1)) ELSE s

Strip(s) == RStrip(LStrip(s))

\* needle in haystack (Python substring test)
Contains(haystack, needle) ==
    \E k \in 0..(Len(haystack) - Len(needle)) :
        SubSeq(haystack, k + 1, k + Len(needle)) = needle

(***************************************************************************)
(* difflib.SequenceMatcher(None, a, b).ratio() without junk (the autojunk  *)
(* heuristic needs a second string of 200 characters or more).             *)
(* Offsets are 0-based and half-open as in difflib.                        *)
(***************************************************************************)
IsBlock(a, b, i, j, k) == \A t \in 1..k : a[i + t] = b[j + t]

\* all non-empty matching blocks inside a[alo:ahi], b[blo:bhi]
BlocksIn(a, b, alo, ahi, blo, bhi) ==
    {blk \in (alo..(ahi - 1)) \X (blo..(bhi - 1)) \X (1..(ahi - alo)) :
        /\ blk[1] + blk[3] <= ahi
        /\ blk[2] + blk[3] <= bhi
        /\ IsBlock(a, b, blk[1], blk[2], blk[3])}

\* find_longest_match: longest block, earliest in a, then earliest in b
LongestBlock(blocks, alo, blo) ==
    IF blocks = {} THEN <<alo, blo, 0>>
    ELSE CHOOSE blk \in blocks :
            \A other \in blocks :
                \/ other[3] < blk[3]
                \/ /\ other[3] = blk[3]
                   /\ \/ blk[1] < other[1]
                      \/ blk[1] = other[1] /\ blk[2] <= other[2]

find_longest_match(a, b, alo, ahi, blo, bhi) ==
    LongestBlock(BlocksIn(a, b, alo, ahi, blo, bhi), alo, blo)

\* sum of the sizes of get_matching_blocks()
RECURSIVE MatchingSize(_, _, _, _, _, _)

\* the longest block (i, j, k) and the matching blocks on its two sides
RECURSIVE MatchingSizeAround(_, _, _, _, _, _, _, _, _)
MatchingSizeAround(a, b, alo, ahi, blo, bhi, i, j, k) ==
    IF k = 0 THEN 0
    ELSE k
         + (IF alo < i /\ blo < j
            THEN MatchingSize(a, b, alo, i, blo, j) ELSE 0)
         + (IF i + k < ahi /\ j + k < bhi
            THEN MatchingSize(a, b, i + k, ahi, j + k, bhi) ELSE 0)

MatchingSizeOf(a, b, alo, ahi, blo, bhi, m) ==
    MatchingSizeAround(a, b, alo, ahi, blo, bhi, m[1], m[2], m[3])

MatchingSize(a, b, alo, ahi, blo, bhi) ==
    MatchingSizeOf(a, b, alo, ahi, blo, bhi,
                   find_longest_match(a, b, alo, ahi, blo, bhi))

\* _calculate_ratio(matches, length)
SequenceRatio(a, b) ==
    IF Len(a) + Len(b) = 0 THEN One
    ELSE Rat(2 * MatchingSize(a, b, 0, Len(a), 0, Len(b)), Len(a) + Len(b))

(***************************************************************************)
(* normalize_attribute                                                     *)
(***************************************************************************)
VisibilityChars == {"+", "-", "#", "~"}

\* index of the first ":" of s, 0 when there is none
FirstColon(s) ==
    IF \E k \in 1..Len(s) : s[k] = ":"
    THEN CHOOSE k \in 1..Len(s) : s[k] = ":" /\ \A m \in 1..(k - 1) : s[m] # ":"
    ELSE 0

NormalizedParts_unstripped(visibility, attr, c) ==
    IF c > 0
    THEN <<visibility, " ">> \o SubSeq(attr, 1, c - 1) \o <<":", " ">>
            \o SubSeq(attr, c + 1, Len(attr))
    ELSE <<visibility, " ">> \o attr

\* lines 106-109: the attribute after its visibility, split at the colon c
NormalizedParts(visibility, attr, c) ==
    IF c > 0
    THEN <<visibility, " ">> \o Strip(SubSeq(attr, 1, c - 1)) \o <<":", " ">>
            \o Strip(SubSeq(attr, c + 1, Len(attr)))
    ELSE <<visibility, " ">> \o attr

\* lines 106-109
NormalizedWith(visibility, attr) ==
    NormalizedParts(visibility, attr, FirstColon(attr))

\* lines 101-104, on the stripped attribute
NormalizeStripped(attr0) ==
    IF attr0 # <<>> /\ attr0[1] \in VisibilityChars
    THEN NormalizedWith(attr0[1], Strip(Tail(attr0)))
    ELSE NormalizedWith("-", attr0)

normalize_attribute(raw) == NormalizeStripped(Strip(raw))

(***************************************************************************)
(* The strings of the model and their pairwise ratios, computed once.      *)
(***************************************************************************)
NameOrder == <<"o", "r", "d", "e", "r">>
NameOrders == <<"o", "r", "d", "e", "r", "s">>
NameOrderCap == <<"O", "r", "d", "e", "r">>
NameX == <<"x">>
ClassNames == {NameOrder, NameOrders, NameOrderCap, NameX}

AttrA == <<"-", " ", "a", ":", " ", "i">>
AttrB == <<"+", " ", "b", ":", " ", "s">>
AttrStrings == {AttrA, AttrB}

KnownStrings ==
    ClassNames \cup {Lower(n) : n \in ClassNames}
        \cup AttrStrings \cup {normalize_attribute(a) : a \in AttrStrings}

RatioTable ==
    [a \in KnownStrings |-> [b \in KnownStrings |-> SequenceRatio(a, b)]]

\* difflib.SequenceMatcher(None, a, b).ratio()
ratio(a, b) ==
    IF a \in KnownStrings /\ b \in KnownStrings THEN RatioTable[a][b]
    ELSE SequenceRatio(a, b)

(***************************************************************************)
(* Data structures.  A ClassInfo is a record; a Dict[str, ClassInfo] is    *)
(* the sequence of its values in insertion order (keys are the names and   *)
(* are unique).  A lower-cased index is a sequence of <<key, ClassInfo>>.  *)
(***************************************************************************)
ClassInfo(name, attributes, methods) ==
    [name |-> name, attributes |-> attributes, methods |-> methods]

None == <<"None">>

\* d[key] = value on an insertion-ordered dict of <<key, value>> pairs
RECURSIVE DictReplace(_, _, _)
DictReplace(d, key, value) ==
    IF d = <<>> THEN <<>>
    ELSE <<IF Head(d)[1] = key THEN <<key, value>> ELSE Head(d)>>
            \o DictReplace(Tail(d), key, value)

DictSet(d, key, value) ==
    IF \E k \in 1..Len(d) : d[k][1] = key
    THEN DictReplace(d, key, value)
    ELSE Append(d, <<key, value>>)

DictGet(d, key) == (CHOOSE k \in 1..Len(d) : d[k][1] = key)

\* {c.name.lower(): c for c in classes.values()}
RECURSIVE LowIndexFrom(_, _, _)
LowIndexFrom(classes, k, acc) ==
    IF k > Len(classes) THEN acc
    ELSE LowIndexFrom(classes, k + 1,
                      DictSet(acc, Lower(classes[k].name), classes[k]))

LowIndex(classes) == LowIndexFrom(classes, 1, <<>>)

(***************************************************************************)
(* _match_attributes                                                       *)
(***************************************************************************)
\* "if ratio > best_ratio" with best_ratio starting at 0.0, over the indices
\* of r in increasing order: the first index of maximal ratio
FirstMax(r) ==
    CHOOSE x \in DOMAIN r :
        \A y \in DOMAIN r : RLt(r[y], r[x]) \/ (r[y] = r[x] /\ x <= y)

\* inner loop: the ratios above 0.0 of the not yet matched etalon attributes
AttrRatios(etalon_attrs, student_attr, matched_etalon) ==
    [e \in {i \in 1..Len(etalon_attrs) :
                /\ i \notin matched_etalon
                /\ RLt(Zero, ratio(etalon_attrs[i], student_attr))}
        |-> ratio(etalon_attrs[e], student_attr)]

\* best_idx and best_ratio after the inner loop; index 0 stands for None
BestOfRatios(r) ==
    IF DOMAIN r = {} THEN [idx |-> 0, ratio |-> Zero]
    ELSE [idx |-> FirstMax(r), ratio |-> r[FirstMax(r)]]

\* the same without "if e_idx in matched_etalon: continue"
BestEtalonAttr_among_all(etalon_attrs, student_attr, matched_etalon) ==
    BestOfRatios(AttrRatios(etalon_attrs, student_attr, {}))

BestEtalonAttr(etalon_attrs, student_attr, matched_etalon) ==
    BestOfRatios(AttrRatios(etalon_attrs, student_attr, matched_etalon))

\* outer loop over the student attributes, from index s_idx on
RECURSIVE MatchAttrLoop(_, _, _, _, _, _)

\* lines 173-175: the student attribute s_idx with its best etalon attribute
RECURSIVE MatchAttrStep(_, _, _, _, _, _, _)
MatchAttrStep(etalon_attrs, student_attrs, threshold, s_idx, matched_etalon, matched_student, best) ==
    IF best.idx # 0 /\ RLe(threshold, best.ratio)
    THEN MatchAttrLoop(etalon_attrs, student_attrs, threshold, s_idx + 1,
                       matched_etalon \cup {best.idx},
                       matched_student \cup {s_idx})
    ELSE MatchAttrLoop(etalon_attrs, student_attrs, threshold, s_idx + 1,
                       matched_etalon, matched_student)

MatchAttrLoop(etalon_attrs, student_attrs, threshold, s_idx, matched_etalon, matched_student) ==
    IF s_idx > Len(student_attrs)
    THEN [matched_etalon |-> matched_etalon, matched_student |-> matched_student]
    ELSE MatchAttrStep(etalon_attrs, student_attrs, threshold, s_idx,
                       matched_etalon, matched_student,
                       BestEtalonAttr(etalon_attrs, student_attrs[s_idx],
                                      matched_etalon))

\* [attr for idx, attr in enumerate(attrs) if idx not in matched]
RECURSIVE Unmatched(_, _, _)
Unmatched(attrs, matched, k) ==
    IF k > Len(attrs) THEN <<>>
    ELSE (IF k \in matched THEN <<>> ELSE <<attrs[k]>>)
            \o Unmatched(attrs, matched, k + 1)

\* lines 177-183, from the two sets of matched indices
MatchedMissingExtra(etalon_attrs, student_attrs, m) ==
    [matched |-> Cardinality(m.matched_etalon),
     missing |-> Unmatched(etalon_attrs, m.matched_etalon, 1),
     extra |-> Unmatched(student_attrs, m.matched_student, 1),
     matched_etalon |-> m.matched_etalon,
     matched_student |-> m.matched_student]

match_attributes(etalon_attrs, student_attrs, threshold) ==
    MatchedMissingExtra(etalon_attrs, student_attrs,
        MatchAttrLoop(etalon_attrs, student_attrs, threshold, 1, {}, {}))

\* the matches of the outer loop in the order it makes them: <<best_idx,
\* s_idx>> each time lines 173-175 add the two indices
RECURSIVE MatchedAttrPairs(_, _, _, _, _)

RECURSIVE MatchedAttrPairStep(_, _, _, _, _, _)
MatchedAttrPairStep(etalon_attrs, student_attrs, threshold, s_idx, matched_etalon, best) ==
    IF best.idx # 0 /\ RLe(threshold, best.ratio)
    THEN <<<<best.idx, s_idx>>>>
            \o MatchedAttrPairs(etalon_attrs, student_attrs, threshold,
                                s_idx + 1, matched_etalon \cup {best.idx})
    ELSE MatchedAttrPairs(etalon_attrs, student_attrs, threshold,
                          s_idx + 1, matched_etalon)

MatchedAttrPairs(etalon_attrs, student_attrs, threshold, s_idx, matched_etalon) ==
    IF s_idx > Len(student_attrs) THEN <<>>
    ELSE MatchedAttrPairStep(etalon_attrs, student_attrs, threshold, s_idx,
                             matched_etalon,
                             BestEtalonAttr(etalon_attrs, student_attrs[s_idx],
                                            matched_etalon))

\* [normalize_attribute(attr) for attr in attrs]
RECURSIVE NormalizeAll(_)
NormalizeAll(attrs) ==
    IF attrs = <<>> THEN <<>>
    ELSE <<normalize_attribute(Head(attrs))>> \o NormalizeAll(Tail(attrs))

\* the harmonic mean with 1 instead of 0 when P+R = 0
F1_one_when_zero(p, r) ==
    IF RLt(Zero, RAdd(p, r)) THEN RDiv(RMul(Two, RMul(p, r)), RAdd(p, r))
    ELSE One

\* 2PR/(P+R) if P+R > 0 else 0
F1(p, r) ==
    IF RLt(Zero, RAdd(p, r)) THEN RDiv(RMul(Two, RMul(p, r)), RAdd(p, r))
    ELSE Zero

(***************************************************************************)
(* compare_puml_with_json, on the two parsed class dictionaries            *)
(***************************************************************************)
\* lines 214-218: the ratios above 0.0 of the student keys
LowRatios(e_low, student_low) ==
    [s \in {i \in 1..Len(student_low) :
                RLt(Zero, ratio(e_low, student_low[i][1]))}
        |-> ratio(e_low, student_low[s][1])]

\* best_match and best_ratio after the loop of lines 214-218
BestLowOfRatios(student_low, r) ==
    IF DOMAIN r = {} THEN [student |-> None, ratio |-> Zero]
    ELSE [student |-> student_low[FirstMax(r)][1], ratio |-> r[FirstMax(r)]]

\* lines 212-218: the first student key of maximal ratio above 0
BestStudentLow(e_low, student_low) ==
    BestLowOfRatios(student_low, LowRatios(e_low, student_low))

\* an entry of class_mapping when the best ratio does not exceed the threshold
ClassMappingEntry_below_threshold(e_low, best, threshold) ==
    IF RLe(best.ratio, threshold) THEN <<<<e_low, best>>>> ELSE <<>>

\* lines 219-222: the entry of class_mapping for e_low, if any
ClassMappingEntry(e_low, best, threshold) ==
    IF RLe(threshold, best.ratio) THEN <<<<e_low, best>>>> ELSE <<>>

\* lines 211-222: class_mapping as an ordered dict e_low -> {student, ratio}
RECURSIVE ClassMappingFrom(_, _, _, _)
ClassMappingFrom(etalon_low, student_low, threshold, k) ==
    IF k > Len(etalon_low) THEN <<>>
    ELSE ClassMappingEntry(etalon_low[k][1],
                           BestStudentLow(etalon_low[k][1], student_low),
                           threshold)
            \o ClassMappingFrom(etalon_low, student_low, threshold, k + 1)

ClassMapping(etalon_low, student_low, threshold) ==
    ClassMappingFrom(etalon_low, student_low, threshold, 1)

HasKey(d, key) == \E k \in 1..Len(d) : d[k][1] = key

\* class_mapping.get(e_low)["student"], for a key of class_mapping
MappedStudent(class_mapping, e_low) ==
    class_mapping[DictGet(class_mapping, e_low)][2].student

\* lines 242-265: the counts and diffs after a mapped etalon class
MappedClassAcc(acc, e_cls, s_cls, normalized_etalon_attrs, normalized_student_attrs, m) ==
    [etalon_attr_count |->
         acc.etalon_attr_count + Len(normalized_etalon_attrs),
     student_attr_count |->
         acc.student_attr_count + Len(normalized_student_attrs),
     matched_attrs |-> acc.matched_attrs + m.matched,
     attribute_diffs |->
         IF m.missing # <<>> \/ m.extra # <<>>
         THEN Append(acc.attribute_diffs,
                     [etalon_class |-> e_cls.name,
                      student_class |-> s_cls.name,
                      missing |-> m.missing,
                      extra |-> m.extra])
         ELSE acc.attribute_diffs]

\* lines 242 and 266-275: the counts and diffs after an etalon class without
\* student
UnmappedClassAcc(acc, e_cls, normalized_etalon_attrs) ==
    [etalon_attr_count |->
         acc.etalon_attr_count + Len(normalized_etalon_attrs),
     student_attr_count |-> acc.student_attr_count,
     matched_attrs |-> acc.matched_attrs,
     attribute_diffs |->
         IF normalized_etalon_attrs # <<>>
         THEN Append(acc.attribute_diffs,
                     [etalon_class |-> e_cls.name,
                      student_class |-> None,
                      missing |-> normalized_etalon_attrs,
                      extra |-> <<>>])
         ELSE acc.attribute_diffs]

\* lines 253-255
MappedClassMatch(acc, e_cls, s_cls, normalized_etalon_attrs, normalized_student_attrs, threshold) ==
    MappedClassAcc(acc, e_cls, s_cls,
                   normalized_etalon_attrs, normalized_student_attrs,
                   match_attributes(normalized_etalon_attrs,
                                    normalized_student_attrs, threshold))

\* lines 246-250
MappedClass(acc, e_cls, s_cls, normalized_etalon_attrs, threshold) ==
    MappedClassMatch(acc, e_cls, s_cls, normalized_etalon_attrs,
                     NormalizeAll(s_cls.attributes), threshold)

\* lines 243-275: one etalon class
EtalonClassAcc(student_low, class_mapping, threshold, acc, e_low, e_cls, normalized_etalon_attrs) ==
    IF /\ HasKey(class_mapping, e_low)
       /\ MappedStudent(class_mapping, e_low) # None
    THEN MappedClass(acc, e_cls,
                     student_low[DictGet(student_low,
                                         MappedStudent(class_mapping, e_low))][2],
                     normalized_etalon_attrs, threshold)
    ELSE UnmappedClassAcc(acc, e_cls, normalized_etalon_attrs)

\* lines 238-275: the pass over the etalon classes
RECURSIVE EtalonAttrPass(_, _, _, _, _, _)
EtalonAttrPass(etalon_low, student_low, class_mapping, threshold, k, acc) ==
    IF k > Len(etalon_low) THEN acc
    ELSE EtalonAttrPass(etalon_low, student_low, class_mapping, threshold,
                        k + 1,
                        EtalonClassAcc(student_low, class_mapping, threshold,
                                       acc, etalon_low[k][1], etalon_low[k][2],
                                       NormalizeAll(etalon_low[k][2].attributes)))

\* lines 277-291: the attributes of the unmatched student classes
ExtraStudentDiff(s_low, s_cls, normalized_student_attrs, matched_student_lows) ==
    IF s_low \notin matched_student_lows /\ normalized_student_attrs # <<>>
    THEN <<[etalon_class |-> None,
            student_class |-> s_cls.name,
            missing |-> <<>>,
            extra |-> normalized_student_attrs]>>
    ELSE <<>>

RECURSIVE ExtraStudentDiffs(_, _, _)
ExtraStudentDiffs(student_low, matched_student_lows, k) ==
    IF k > Len(student_low) THEN <<>>
    ELSE ExtraStudentDiff(student_low[k][1], student_low[k][2],
                          NormalizeAll(student_low[k][2].attributes),
                          matched_student_lows)
            \o ExtraStudentDiffs(student_low, matched_student_lows, k + 1)

\* names of the entries of a lower-cased index whose key is not in keys
RECURSIVE NamesNotIn(_, _, _)
NamesNotIn(low, keys, k) ==
    IF k > Len(low) THEN <<>>
    ELSE (IF low[k][1] \in keys THEN <<>> ELSE <<low[k][2].name>>)
            \o NamesNotIn(low, keys, k + 1)

\* both facets weighted alike
TotalSimilarity_equal_weights(f1_classes, f1_attrs) ==
    RAdd(RMul(Rat(5, 10), f1_classes), RMul(Rat(5, 10), f1_attrs))

\* line 308
TotalSimilarity(f1_classes, f1_attrs) ==
    RAdd(RMul(Rat(6, 10), f1_classes), RMul(Rat(4, 10), f1_attrs))

\* lines 224-344: the metrics and the diff, from the alignment and the pass
JsonResult(etalon_classes, student_classes, etalon_low, student_low, class_mapping, pass) ==
      LET matched_classes == Len(class_mapping)
          matched_student_lows ==
              {class_mapping[k][2].student : k \in 1..Len(class_mapping)}
          precision_c == IF student_classes # <<>>
                         THEN Rat(matched_classes, Len(student_classes))
                         ELSE Zero
          recall_c == Rat(matched_classes, Len(etalon_classes))
          f1_classes == F1(precision_c, recall_c)
          attribute_diffs ==
              pass.attribute_diffs
                \o ExtraStudentDiffs(student_low, matched_student_lows, 1)
          no_attributes ==
              pass.etalon_attr_count = 0 /\ pass.student_attr_count = 0
          precision_a ==
              IF no_attributes THEN One
              ELSE IF pass.student_attr_count # 0
                   THEN Rat(pass.matched_attrs, pass.student_attr_count)
                   ELSE Zero
          recall_a ==
              IF no_attributes THEN One
              ELSE IF pass.etalon_attr_count # 0
                   THEN Rat(pass.matched_attrs, pass.etalon_attr_count)
                   ELSE Zero
          f1_attrs == IF no_attributes THEN One ELSE F1(precision_a, recall_a)
          total_similarity == TotalSimilarity(f1_classes, f1_attrs)
      IN  [similarity |-> total_similarity,
           score |-> RMul(total_similarity, Hundred),
           classes |-> [f1 |-> f1_classes,
                        precision |-> precision_c,
                        recall |-> recall_c,
                        etalon_count |-> Len(etalon_classes),
                        student_count |-> Len(student_classes),
                        matched |-> matched_classes],
           attributes |-> [f1 |-> f1_attrs,
                           precision |-> precision_a,
                           recall |-> recall_a,
                           etalon_count |-> pass.etalon_attr_count,
                           student_count |-> pass.student_attr_count,
                           matched |-> pass.matched_attrs],
           diff |-> [classes |->
                        [missing |->
                            NamesNotIn(etalon_low,
                                {class_mapping[k][1] : k \in 1..Len(class_mapping)},
                                1),
                         extra |->
                            NamesNotIn(student_low, matched_student_lows, 1)],
                     attributes |-> attribute_diffs]]

\* lines 238-275
JsonMeasured(etalon_classes, student_classes, etalon_low, student_low, class_mapping, attr_thr) ==
    JsonResult(etalon_classes, student_classes, etalon_low, student_low,
               class_mapping,
               EtalonAttrPass(etalon_low, student_low, class_mapping,
                              attr_thr, 1,
                              [etalon_attr_count |-> 0,
                               student_attr_count |-> 0,
                               matched_attrs |-> 0,
                               attribute_diffs |-> <<>>]))

\* lines 211-222
JsonAligned(etalon_classes, student_classes, etalon_low, student_low, class_thr, attr_thr) ==
    JsonMeasured(etalon_classes, student_classes, etalon_low, student_low,
                 ClassMapping(etalon_low, student_low, class_thr), attr_thr)

\* lines 202-344
JsonComparison(etalon_classes, student_classes, class_thr, attr_thr) ==
    JsonAligned(etalon_classes, student_classes,
                LowIndex(etalon_classes), LowIndex(student_classes),
                class_thr, attr_thr)

\* line 200
EmptyEtalonJson == [error |-> "etalon is empty", similarity |-> One]

\* lines 196-200, then the comparison proper
compare_puml_with_json(etalon_classes, student_classes, class_thr, attr_thr) ==
    IF etalon_classes = <<>> THEN EmptyEtalonJson
    ELSE JsonComparison(etalon_classes, student_classes, class_thr, attr_thr)

(***************************************************************************)
(* compare_puml_with_puml, on the two parsed class dictionaries            *)
(***************************************************************************)
\* lines 421-430: the ratios of the not yet matched student names that reach
\* the threshold and are above 0.0
CandidateRatios(etalon_name, student_classes, matched_class_names, threshold) ==
    [s \in {i \in 1..Len(student_classes) :
                /\ student_classes[i].name \notin matched_class_names
                /\ RLe(threshold, ratio(etalon_name, student_classes[i].name))
                /\ RLt(Zero, ratio(etalon_name, student_classes[i].name))}
        |-> ratio(etalon_name, student_classes[s].name)]

\* best_candidate after the loop of lines 421-430
BestCandidateOfRatios(student_classes, r) ==
    IF DOMAIN r = {} THEN None ELSE student_classes[FirstMax(r)].name

\* lines 418-430: the first unmatched student name of maximal ratio
BestCandidate(etalon_name, student_classes, matched_class_names, threshold) ==
    BestCandidateOfRatios(student_classes,
        CandidateRatios(etalon_name, student_classes, matched_class_names,
                        threshold))

\* truth value of an Optional[str]
Truthy(name) == name # None /\ name # <<>>

\* lines 432-436: the counts after one etalon class
PumlClassAcc(acc, etalon_name, best_candidate) ==
    IF Truthy(best_candidate)
    THEN [matched_classes |-> acc.matched_classes + 1,
          matched_class_names |->
              acc.matched_class_names \cup {best_candidate},
          missing_classes |-> acc.missing_classes,
          pairs |-> Append(acc.pairs, <<etalon_name, best_candidate>>)]
    ELSE [matched_classes |-> acc.matched_classes,
          matched_class_names |-> acc.matched_class_names,
          missing_classes |-> Append(acc.missing_classes, etalon_name),
          pairs |-> acc.pairs]

\* lines 417-436
RECURSIVE PumlClassLoop(_, _, _, _, _)
PumlClassLoop(etalon_classes, student_classes, threshold, k, acc) ==
    IF k > Len(etalon_classes) THEN acc
    ELSE PumlClassLoop(etalon_classes, student_classes, threshold, k + 1,
            PumlClassAcc(acc, etalon_classes[k].name,
                         BestCandidate(etalon_classes[k].name, student_classes,
                                       acc.matched_class_names, threshold)))

\* lines 469-477: the student class whose attributes are compared
FirstNamed(student_classes, cand) ==
    IF cand = {} THEN None
    ELSE student_classes[CHOOSE x \in cand : \A y \in cand : x <= y].name

AttrStudentName(etalon_name, student_classes, matched_class_names, threshold) ==
    FirstNamed(student_classes,
        {s \in 1..Len(student_classes) :
            /\ student_classes[s].name \in matched_class_names
            /\ RLe(threshold, ratio(etalon_name, student_classes[s].name))})

ClassNamed(classes, name) ==
    classes[CHOOSE k \in 1..Len(classes) : classes[k].name = name]

\* lines 481-497: the totals after an etalon class with a student class
ComparedAttrAcc(acc, etalon_class, student_name, m) ==
    [total_matched_attrs |-> acc.total_matched_attrs + m.matched,
     total_missing_attrs |-> acc.total_missing_attrs \o m.missing,
     total_extra_attrs |-> acc.total_extra_attrs \o m.extra,
     all_attr_diffs |->
         IF m.missing # <<>> \/ m.extra # <<>>
         THEN Append(acc.all_attr_diffs,
                     [etalon_class |-> etalon_class.name,
                      student_class |-> student_name,
                      missing |-> m.missing,
                      extra |-> m.extra])
         ELSE acc.all_attr_diffs,
     attr_pairs |-> Append(acc.attr_pairs, <<etalon_class.name, student_name>>)]

\* lines 498-500: the totals after an etalon class without student class
MissingAttrAcc(acc, etalon_class) ==
    [total_matched_attrs |-> acc.total_matched_attrs,
     total_missing_attrs |-> acc.total_missing_attrs \o etalon_class.attributes,
     total_extra_attrs |-> acc.total_extra_attrs,
     all_attr_diffs |-> acc.all_attr_diffs,
     attr_pairs |-> acc.attr_pairs]

\* lines 479-500: one etalon class and the student class found for it
PumlAttrAcc(acc, etalon_class, student_classes, student_name, attr_thr) ==
    IF Truthy(student_name)
    THEN ComparedAttrAcc(acc, etalon_class, student_name,
            match_attributes(etalon_class.attributes,
                             ClassNamed(student_classes, student_name).attributes,
                             attr_thr))
    ELSE MissingAttrAcc(acc, etalon_class)

\* lines 468-500
RECURSIVE PumlAttrLoop(_, _, _, _, _, _, _)
PumlAttrLoop(etalon_classes, student_classes, matched_class_names, class_thr, attr_thr, k, acc) ==
    IF k > Len(etalon_classes) THEN acc
    ELSE PumlAttrLoop(etalon_classes, student_classes, matched_class_names,
                      class_thr, attr_thr, k + 1,
                      PumlAttrAcc(acc, etalon_classes[k], student_classes,
                                  AttrStudentName(etalon_classes[k].name,
                                                  student_classes,
                                                  matched_class_names, class_thr),
                                  attr_thr))

RECURSIVE SumAttrs(_, _)
SumAttrs(classes, k) ==
    IF k > Len(classes) THEN 0
    ELSE Len(classes[k].attributes) + SumAttrs(classes, k + 1)

RECURSIVE NamesNotMatched(_, _, _)
NamesNotMatched(classes, matched_class_names, k) ==
    IF k > Len(classes) THEN <<>>
    ELSE (IF classes[k].name \in matched_class_names THEN <<>>
          ELSE <<classes[k].name>>)
            \o NamesNotMatched(classes, matched_class_names, k + 1)

PumlClassStep(etalon_classes, student_classes, class_thr) ==
    PumlClassLoop(etalon_classes, student_classes, class_thr, 1,
                  [matched_classes |-> 0, matched_class_names |-> {},
                   missing_classes |-> <<>>, pairs |-> <<>>])

PumlAttrStep(etalon_classes, student_classes, matched_class_names, class_thr, attr_thr) ==
    PumlAttrLoop(etalon_classes, student_classes, matched_class_names,
                 class_thr, attr_thr, 1,
                 [total_matched_attrs |-> 0, total_missing_attrs |-> <<>>,
                  total_extra_attrs |-> <<>>, all_attr_diffs |-> <<>>,
                  attr_pairs |-> <<>>])

\* the facet metric without the rule for two empty totals
FacetMetric_zero_when_empty(matched, count, etalon_count, student_count) ==
    IF count > 0 THEN Rat(matched, count) ELSE Zero

\* lines 446-454 and 505-513
FacetMetric(matched, count, etalon_count, student_count) ==
    IF etalon_count > 0 \/ student_count > 0
    THEN (IF count > 0 THEN Rat(matched, count) ELSE One)
    ELSE One

\* lines 522-529
OverallAverage(cls, attr) ==
    IF RLt(Zero, RAdd(cls, attr)) THEN RDiv(RAdd(cls, attr), Two) ELSE One

\* lines 438-564: the metrics and the diff, from the two steps
PumlResult(etalon_classes, student_classes, step1, step2) ==
      LET matched_classes == step1.matched_classes
          extra_classes ==
              NamesNotMatched(student_classes, step1.matched_class_names, 1)
          etalon_class_count == Len(etalon_classes)
          student_class_count == Len(student_classes)
          precision_cls == FacetMetric(matched_classes, student_class_count,
                                       etalon_class_count, student_class_count)
          recall_cls == FacetMetric(matched_classes, etalon_class_count,
                                    etalon_class_count, student_class_count)
          f1_cls == F1(precision_cls, recall_cls)
          total_matched_attrs == step2.total_matched_attrs
          etalon_attr_count == SumAttrs(etalon_classes, 1)
          student_attr_count == SumAttrs(student_classes, 1)
          precision_attr == FacetMetric(total_matched_attrs, student_attr_count,
                                        etalon_attr_count, student_attr_count)
          recall_attr == FacetMetric(total_matched_attrs, etalon_attr_count,
                                     etalon_attr_count, student_attr_count)
          f1_attr == F1(precision_attr, recall_attr)
          overall_precision == OverallAverage(precision_cls, precision_attr)
          overall_recall == OverallAverage(recall_cls, recall_attr)
          overall_f1 == F1(overall_precision, overall_recall)
      IN  [similarity |-> overall_f1,
           score |-> RMul(overall_f1, Hundred),
           classes |-> [precision |-> precision_cls,
                        recall |-> recall_cls,
                        f1 |-> f1_cls,
                        etalon_count |-> etalon_class_count,
                        student_count |-> student_class_count,
                        matched |-> matched_classes],
           attributes |-> [precision |-> precision_attr,
                           recall |-> recall_attr,
                           f1 |-> f1_attr,
                           etalon_count |-> etalon_attr_count,
                           student_count |-> student_attr_count,
                           matched |-> total_matched_attrs],
           diff |-> [classes |-> [missing |-> step1.missing_classes,
                                  extra |-> extra_classes],
                     attributes |-> step2.all_attr_diffs]]

\* lines 456-500
PumlMeasured(etalon_classes, student_classes, step1, class_thr, attr_thr) ==
    PumlResult(etalon_classes, student_classes, step1,
               PumlAttrStep(etalon_classes, student_classes,
                            step1.matched_class_names, class_thr, attr_thr))

\* lines 411-564
PumlComparison(etalon_classes, student_classes, class_thr, attr_thr) ==
    PumlMeasured(etalon_classes, student_classes,
                 PumlClassStep(etalon_classes, student_classes, class_thr),
                 class_thr, attr_thr)

\* line 402
EmptyEtalonPuml == [error |-> "first diagram is empty", similarity |-> One]

\* the note without the score, as for an empty reference
EmptyStudentPuml_without_score ==
    [error |-> "second diagram is empty", similarity |-> Zero]

\* lines 405-409
EmptyStudentPuml ==
    [error |-> "second diagram is empty", similarity |-> Zero, score |-> Zero]

\* the two emptiness tests in the wrong order
compare_puml_with_puml_swapped(etalon_classes, student_classes, class_thr, attr_thr) ==
    IF student_classes = <<>> THEN EmptyStudentPuml
    ELSE IF etalon_classes = <<>> THEN EmptyEtalonPuml
    ELSE PumlComparison(etalon_classes, student_classes, class_thr, attr_thr)

\* lines 398-409, then the comparison proper
compare_puml_with_puml(etalon_classes, student_classes, class_thr, attr_thr) ==
    IF etalon_classes = <<>> THEN EmptyEtalonPuml
    ELSE IF student_classes = <<>> THEN EmptyStudentPuml
    ELSE PumlComparison(etalon_classes, student_classes, class_thr, attr_thr)

(***************************************************************************)
(* Inputs of one comparison.                                               *)
(***************************************************************************)
SeqsUpTo(S, n) == UNION {[1..m -> S] : m \in 0..n}

ClassInfos(maxAttrs) ==
    {ClassInfo(n, a, <<>>) : n \in ClassNames, a \in SeqsUpTo(AttrStrings, maxAttrs)}

\* class dictionaries: the keys (names) are unique
ClassDicts(maxClasses, maxAttrs) ==
    {d \in SeqsUpTo(ClassInfos(maxAttrs), maxClasses) :
        \A i, j \in 1..Len(d) : d[i].name = d[j].name => i = j}

DefaultClassThreshold == Rat(90, 100)
DefaultAttrThreshold == Rat(85, 100)

ClassThresholds == {Rat(50, 100), DefaultClassThreshold, Rat(101, 100)}
AttrThresholds == {DefaultAttrThreshold}

NoResult == [none |-> TRUE]
NoBatch == [status |-> "none"]

(***************************************************************************)
(* The class alignment computed by each variant (local variables of the    *)
(* handlers, recorded for the properties about the alignment).             *)
(***************************************************************************)
RECURSIVE MappingPairs(_)
MappingPairs(class_mapping) ==
    IF class_mapping = <<>> THEN <<>>
    ELSE <<<<Head(class_mapping)[1], Head(class_mapping)[2].student>>>>
            \o MappingPairs(Tail(class_mapping))

JsonClassPairs(etalon_classes, student_classes, class_thr) ==
    IF etalon_classes = <<>> THEN <<>>
    ELSE MappingPairs(ClassMapping(LowIndex(etalon_classes),
                                   LowIndex(student_classes), class_thr))

\* the mapped pairs whose student is not None (line 245)
RECURSIVE WithStudent(_, _)
WithStudent(pairs, k) ==
    IF k > Len(pairs) THEN <<>>
    ELSE (IF pairs[k][2] # None THEN <<pairs[k]>> ELSE <<>>)
            \o WithStudent(pairs, k + 1)

PumlClassPairs(etalon_classes, student_classes, class_thr) ==
    IF etalon_classes = <<>> \/ student_classes = <<>> THEN <<>>
    ELSE PumlClassStep(etalon_classes, student_classes, class_thr).pairs

PumlAttrPairs(etalon_classes, student_classes, class_thr, attr_thr) ==
    IF etalon_classes = <<>> \/ student_classes = <<>> THEN <<>>
    ELSE PumlAttrStep(etalon_classes, student_classes,
            PumlClassStep(etalon_classes, student_classes, class_thr)
                .matched_class_names,
            class_thr, attr_thr).attr_pairs

\* no upload has been paired
NoPairing == [pairings |-> <<>>, unmatched_json |-> <<>>]

PairingIdle ==
    /\ puml_files = <<>>
    /\ json_files = <<>>
    /\ pairing = NoPairing

\* the None of a pairing without a candidate (a record, as the entries are)
NoEntry == [none |-> TRUE]

\* no results stored, no operation half done
LifecycleIdle ==
    /\ results_files = <<>>
    /\ kept = <<>>
    /\ saving = NoEntry
    /\ cleaning = NoEntry

\* no list of results has been normalized
ScoresIdle ==
    /\ comparisons = <<>>
    /\ normalized = <<>>

\* no attribute lists have been matched on their own
AttributesIdle ==
    /\ etalon_list = <<>>
    /\ student_list = <<>>
    /\ match_threshold = <<0, 1>>
    /\ matching = NoEntry
    /\ matched_pairs = <<>>

RestIdle == LifecycleIdle /\ ScoresIdle /\ AttributesIdle

\* no document has been parsed
ParseIdle ==
    /\ entities = <<>>
    /\ parsed = <<>>

\* no attribute has been normalized
NormalizeIdle ==
    /\ attr_raw = <<>>
    /\ attr_once = <<>>
    /\ attr_twice = <<>>

\* no session has been opened
SessionsIdle ==
    /\ session_ids = <<>>
    /\ manifests = <<>>
    /\ uploads_dir = {}
    /\ saved = <<>>

(***************************************************************************)
(* Specification of single comparisons.                                    *)
(***************************************************************************)
Init ==
    /\ pc = "start"
    /\ etalon \in ClassDicts(MaxEtalonClasses, MaxEtalonAttrs)
    /\ student \in ClassDicts(MaxStudentClasses, MaxStudentAttrs)
    /\ class_threshold \in ClassThresholds
    /\ attr_threshold \in AttrThresholds
    /\ result = NoResult
    /\ class_pairs = <<>>
    /\ attr_pairs = <<>>
    /\ earlier = NoResult
    /\ etalon_files = <<>>
    /\ student_files = <<>>
    /\ batch = NoBatch
    /\ PairingIdle
    /\ SessionsIdle
    /\ NormalizeIdle
    /\ ParseIdle
    /\ RestIdle

CompareJson ==
    /\ pc = "start"
    /\ pc' = "json_done"
    /\ result' = compare_puml_with_json(etalon, student,
                                        class_threshold, attr_threshold)
    /\ class_pairs' = JsonClassPairs(etalon, student, class_threshold)
    /\ attr_pairs' = WithStudent(class_pairs', 1)
    /\ UNCHANGED <<etalon, student, class_threshold, attr_threshold, earlier,
                   batch_vars, pairing_vars, session_vars, normalize_vars, parse_vars, rest_vars>>

ComparePuml ==
    /\ pc = "start"
    /\ pc' = "puml_done"
    /\ result' = compare_puml_with_puml(etalon, student,
                                        class_threshold, attr_threshold)
    /\ class_pairs' = PumlClassPairs(etalon, student, class_threshold)
    /\ attr_pairs' = PumlAttrPairs(etalon, student,
                                   class_threshold, attr_threshold)
    /\ UNCHANGED <<etalon, student, class_threshold, attr_threshold, earlier,
                   batch_vars, pairing_vars, session_vars, normalize_vars, parse_vars, rest_vars>>

Next == CompareJson \/ ComparePuml

Spec == Init /\ [][Next]_vars

(***************************************************************************)
(* The same two models compared a second time, with a class threshold that *)
(* is not lower than the first one.                                        *)
(***************************************************************************)
Outcome == [result |-> result, class_pairs |-> class_pairs, class_threshold |-> class_threshold]

RecompareJson ==
    /\ pc = "json_done"
    /\ pc' = "json_again"
    /\ \E t \in ClassThresholds :
            /\ RLe(class_threshold, t)
            /\ class_threshold' = t
            /\ result' = compare_puml_with_json(etalon, student, t, attr_threshold)
            /\ class_pairs' = JsonClassPairs(etalon, student, t)
    /\ attr_pairs' = WithStudent(class_pairs', 1)
    /\ earlier' = Outcome
    /\ UNCHANGED <<etalon, student, attr_threshold,
                   batch_vars, pairing_vars, session_vars, normalize_vars, parse_vars, rest_vars>>

RecomparePuml ==
    /\ pc = "puml_done"
    /\ pc' = "puml_again"
    /\ \E t \in ClassThresholds :
            /\ RLe(class_threshold, t)
            /\ class_threshold' = t
            /\ result' = compare_puml_with_puml(etalon, student, t, attr_threshold)
            /\ class_pairs' = PumlClassPairs(etalon, student, t)
            /\ attr_pairs' = PumlAttrPairs(etalon, student, t, attr_threshold)
    /\ earlier' = Outcome
    /\ UNCHANGED <<etalon, student, attr_threshold,
                   batch_vars, pairing_vars, session_vars, normalize_vars, parse_vars, rest_vars>>

NextThreshold == CompareJson \/ ComparePuml \/ RecompareJson \/ RecomparePuml

SpecThreshold == Init /\ [][NextThreshold]_vars

(***************************************************************************)
(* compare_batch.  A file is a record of its path and of what reading and  *)
(* parsing it gives: a class dictionary, or a failure (parse_puml_file     *)
(* raises on an unreadable file, parse_json_diagram on a malformed one).   *)
(***************************************************************************)
Parsed(classes) == [parses |-> TRUE, classes |-> classes]
Unreadable == [parses |-> FALSE, classes |-> <<>>]
Malformed == [parses |-> FALSE, classes |-> <<>>]

File(path, content) == [path |-> path, content |-> content]

\* 1-based index of the last "." of name, 0 when there is none
LastDot(name) ==
    IF \E k \in 1..Len(name) : name[k] = "."
    THEN CHOOSE k \in 1..Len(name) :
            name[k] = "." /\ \A m \in (k + 1)..Len(name) : name[m] # "."
    ELSE 0

\* Path(path).stem, for a path without directory separators
Stem(path) ==
    LET d == LastDot(path)
    IN  IF 1 < d /\ d < Len(path) THEN SubSeq(path, 1, d - 1) ELSE path

\* lines 362-365
StemsMatch(etalon_path, student_path) ==
    \/ Contains(Lower(Stem(student_path)), Lower(Stem(etalon_path)))
    \/ Contains(Lower(Stem(etalon_path)), Lower(Stem(student_path)))

\* lines 358-367: index of the first matching student file, 0 when none
FirstIndex(cand) ==
    IF cand = {} THEN 0 ELSE CHOOSE x \in cand : \A y \in cand : x <= y

MatchedStudent(etalon_path, files) ==
    FirstIndex({k \in 1..Len(files) : StemsMatch(etalon_path, files[k].path)})

Raised == [raised |-> TRUE]

\* lines 196-197 followed by the comparison with the default thresholds
compare_json_files(etalon_file, student_file) ==
    IF ~etalon_file.content.parses \/ ~student_file.content.parses
    THEN Raised
    ELSE compare_puml_with_json(etalon_file.content.classes,
                                student_file.content.classes,
                                DefaultClassThreshold, DefaultAttrThreshold)

\* result["etalon_file"] = ...; result["student_file"] = ...
WithFiles(r, etalon_name, student_name) ==
    [f \in DOMAIN r \cup {"etalon_file", "student_file"} |->
        IF f = "etalon_file" THEN etalon_name
        ELSE IF f = "student_file" THEN student_name
        ELSE r[f]]

\* the "not found" text of line 378, as a name
StudentNotFound == <<"not found">>

NotFoundResult(etalon_name) ==
    [etalon_file |-> etalon_name,
     student_file |-> StudentNotFound,
     error |-> "matching JSON file not found",
     similarity |-> Zero,
     score |-> Zero]

\* lines 370-373: the entry of a pair, or the exception of its comparison
PairEntry(etalon_file, student_file, r) ==
    IF r = Raised THEN Raised
    ELSE WithFiles(r, etalon_file.path, student_file.path)

\* lines 369-383: the entry of etalon_file; m is the index of its matched
\* student file, 0 when there is none
BatchEntry(etalon_file, students, m) ==
    IF m # 0 /\ students[m].path # <<>>
    THEN PairEntry(etalon_file, students[m],
                   compare_json_files(etalon_file, students[m]))
    ELSE NotFoundResult(etalon_file.path)

\* lines 354-383; an exception raised by a comparison leaves the loop
RECURSIVE BatchLoop(_, _, _, _)

RECURSIVE BatchAppend(_, _, _, _, _)
BatchAppend(etalons, students, k, results, entry) ==
    IF entry = Raised THEN [status |-> "raised", results |-> <<>>]
    ELSE BatchLoop(etalons, students, k + 1, Append(results, entry))

BatchLoop(etalons, students, k, results) ==
    IF k > Len(etalons) THEN [status |-> "returned", results |-> results]
    ELSE BatchAppend(etalons, students, k, results,
            BatchEntry(etalons[k], students,
                       MatchedStudent(etalons[k].path, students)))

compare_batch(etalons, students) == BatchLoop(etalons, students, 1, <<>>)

(***************************************************************************)
(* Inputs of a batch.                                                      *)
(***************************************************************************)
PumlA == <<"a", ".", "p", "u", "m", "l">>
PumlAB == <<"a", "b", ".", "p", "u", "m", "l">>
PumlB == <<"B", ".", "p", "u", "m", "l">>
JsonA == <<"a", ".", "j", "s", "o", "n">>
JsonAB == <<"A", "B", ".", "j", "s", "o", "n">>
JsonC == <<"c", ".", "j", "s", "o", "n">>
EtalonPaths == {PumlA, PumlAB, PumlB}
StudentPaths == {JsonA, JsonAB, JsonC}

DictOrder == <<ClassInfo(NameOrder, <<AttrA>>, <<>>)>>
DictX == <<ClassInfo(NameX, <<>>, <<>>)>>
EtalonContents == {Unreadable, Parsed(<<>>), Parsed(DictOrder)}
StudentContents == {Malformed, Parsed(DictOrder), Parsed(DictX)}

\* lists of files with pairwise different paths
FileLists(paths, contents, maxFiles) ==
    {l \in SeqsUpTo({File(p, c) : p \in paths, c \in contents}, maxFiles) :
        \A i, j \in 1..Len(l) : l[i].path = l[j].path => i = j}

(***************************************************************************)
(* Specification of batches.                                               *)
(***************************************************************************)
InitBatch ==
    /\ pc = "batch_start"
    /\ etalon = <<>>
    /\ student = <<>>
    /\ class_threshold = DefaultClassThreshold
    /\ attr_threshold = DefaultAttrThreshold
    /\ result = NoResult
    /\ class_pairs = <<>>
    /\ attr_pairs = <<>>
    /\ earlier = NoResult
    /\ etalon_files \in FileLists(EtalonPaths, EtalonContents, MaxEtalonFiles)
    /\ student_files \in FileLists(StudentPaths, StudentContents, MaxStudentFiles)
    /\ batch = NoBatch
    /\ PairingIdle
    /\ SessionsIdle
    /\ NormalizeIdle
    /\ ParseIdle
    /\ RestIdle

CompareBatch ==
    /\ pc = "batch_start"
    /\ pc' = "batch_done"
    /\ batch' = compare_batch(etalon_files, student_files)
    /\ UNCHANGED <<comparison_vars, etalon_files, student_files, pairing_vars, session_vars, normalize_vars, parse_vars, rest_vars>>

NextBatch == CompareBatch

SpecBatch == InitBatch /\ [][NextBatch]_vars

(***************************************************************************)
(* auto_pair_files (src/src/services.py).  An uploaded file is a record of *)
(* the name it is stored under and of its label, the name it was uploaded  *)
(* with.                                                                   *)
(***************************************************************************)
names_match_by_containment(left, right) ==
    \/ Contains(Lower(Stem(right)), Lower(Stem(left)))
    \/ Contains(Lower(Stem(left)), Lower(Stem(right)))

names_match(left, right) == Lower(Stem(left)) = Lower(Stem(right))

RECURSIVE FirstCandidate(_, _, _, _)
\* the inner loop: the index of the first candidate from k on that is not
\* used and matches, 0 when the loop ends without a break
FirstCandidate(puml, candidates, used_json, k) ==
    IF k > Len(candidates) THEN 0
    ELSE IF candidates[k].filename \in used_json
         THEN FirstCandidate(puml, candidates, used_json, k + 1)
    ELSE IF names_match(puml.label, candidates[k].label) THEN k
    ELSE FirstCandidate(puml, candidates, used_json, k + 1)

RECURSIVE PairFrom(_, _, _, _, _)
\* one iteration of the outer loop, m being what the inner loop found
PairStep(pumls, candidates, used_json, pairings, i, m) ==
    PairFrom(pumls, candidates,
             IF m = 0 THEN used_json ELSE used_json \cup {candidates[m].filename},
             Append(pairings, [puml |-> pumls[i],
                               json |-> IF m = 0 THEN NoEntry ELSE candidates[m]]),
             i + 1)

\* the outer loop from the i-th reference entry on
PairFrom(pumls, candidates, used_json, pairings, i) ==
    IF i > Len(pumls) THEN [pairings |-> pairings, used_json |-> used_json]
    ELSE PairStep(pumls, candidates, used_json, pairings, i,
                  FirstCandidate(pumls[i], candidates, used_json, 1))

RECURSIVE UnmatchedJson(_, _, _)
UnmatchedJson(candidates, used_json, k) ==
    IF k > Len(candidates) THEN <<>>
    ELSE (IF candidates[k].filename \in used_json THEN <<>> ELSE <<candidates[k]>>)
         \o UnmatchedJson(candidates, used_json, k + 1)

AutoPairResult(candidates, loop) ==
    [pairings |-> loop.pairings,
     unmatched_json |-> UnmatchedJson(candidates, loop.used_json, 1)]

auto_pair_files(pumls, candidates) ==
    AutoPairResult(candidates, PairFrom(pumls, candidates, {}, <<>>, 1))

(***************************************************************************)
(* Specification of session pairing.  The entries are what                 *)
(* save_uploaded_file returns for the uploads of one session: the stored   *)
(* names are pairwise different, a file uploaded under a name already      *)
(* taken being stored as <stem>_<counter><suffix>.                         *)
(***************************************************************************)
ExtPuml == <<".", "p", "u", "m", "l">>
ExtJson == <<".", "j", "s", "o", "n">>

Stored(filename, label) == [filename |-> filename, label |-> label]

PumlUploads ==
    {Stored(<<"a">> \o ExtPuml, <<"a">> \o ExtPuml),
     Stored(<<"a", "_", "1">> \o ExtPuml, <<"a">> \o ExtPuml),
     Stored(<<"A">> \o ExtPuml, <<"A">> \o ExtPuml)}

JsonUploads ==
    {Stored(<<"a">> \o ExtJson, <<"a">> \o ExtJson),
     Stored(<<"a", "_", "1">> \o ExtJson, <<"a">> \o ExtJson),
     Stored(<<"a", "_", "d">> \o ExtJson, <<"a", "_", "d">> \o ExtJson),
     Stored(<<"b">> \o ExtJson, <<"b">> \o ExtJson)}

\* lists of uploads with pairwise different stored names
UploadLists(uploads, maxUploads) ==
    {l \in SeqsUpTo(uploads, maxUploads) :
        \A i, j \in 1..Len(l) : l[i].filename = l[j].filename => i = j}

ComparisonIdle ==
    /\ etalon = <<>>
    /\ student = <<>>
    /\ class_threshold = DefaultClassThreshold
    /\ attr_threshold = DefaultAttrThreshold
    /\ result = NoResult
    /\ class_pairs = <<>>
    /\ attr_pairs = <<>>
    /\ earlier = NoResult

BatchIdle ==
    /\ etalon_files = <<>>
    /\ student_files = <<>>
    /\ batch = NoBatch

InitPairing ==
    /\ pc = "pairing_start"
    /\ ComparisonIdle
    /\ BatchIdle
    /\ puml_files \in UploadLists(PumlUploads, MaxPumlUploads)
    /\ json_files \in UploadLists(JsonUploads, MaxJsonUploads)
    /\ pairing = NoPairing
    /\ SessionsIdle
    /\ NormalizeIdle
    /\ ParseIdle
    /\ RestIdle

AutoPair ==
    /\ pc = "pairing_start"
    /\ pc' = "pairing_done"
    /\ pairing' = auto_pair_files(puml_files, json_files)
    /\ UNCHANGED <<comparison_vars, batch_vars, puml_files, json_files,
                   session_vars, normalize_vars, parse_vars, rest_vars>>

NextPairing == AutoPair

SpecPairing == InitPairing /\ [][NextPairing]_vars

(***************************************************************************)
(* Upload sessions (src/src/services.py).  _manifests is a function from   *)
(* session ids to manifests, a manifest a function from stored names to    *)
(* the names the files were uploaded with.                                 *)
(***************************************************************************)
MAX_UPLOAD_SIZE == 5 * 1024 * 1024

RECURSIVE IntStr(_)
\* str(n) of a natural number
IntStr(n) ==
    IF n < 10 THEN <<<<"0", "1", "2", "3", "4", "5", "6", "7", "8", "9">>[n + 1]>>
    ELSE IntStr(n \div 10) \o IntStr(n % 10)

\* Path(path).suffix, for a path without directory separators
Suffix(path) ==
    IF 1 < LastDot(path) /\ LastDot(path) < Len(path)
    THEN SubSeq(path, LastDot(path), Len(path)) ELSE <<>>

EndsWith(s, suffix) ==
    /\ Len(suffix) <= Len(s)
    /\ SubSeq(s, Len(s) - Len(suffix) + 1, Len(s)) = suffix

\* the characters the pattern [^A-Za-z0-9._-] does not match
SafeChar(c) ==
    \/ \E k \in 1..26 : c = UpperChars[k] \/ c = LowerChars[k]
    \/ \E d \in 0..9 : <<c>> = IntStr(d)
    \/ c \in {".", "_", "-"}

RECURSIVE ReplaceUnsafe(_)
ReplaceUnsafe(s) ==
    IF s = <<>> THEN <<>>
    ELSE <<IF SafeChar(Head(s)) THEN Head(s) ELSE "_">> \o ReplaceUnsafe(Tail(s))

\* x or "file"
OrFile(x) == IF x = <<>> THEN <<"f", "i", "l", "e">> ELSE x

sanitize_filename(name) == ReplaceUnsafe(OrFile(Strip(OrFile(name))))

\* the names of the files in the directory of a session
SessionDir(dir, session_id) == {f[2] : f \in {g \in dir : g[1] = session_id}}

RECURSIVE UniqueFrom(_, _, _, _, _)
\* the while loop of ensure_unique_filename
UniqueFrom(names, stem, suffix, candidate, counter) ==
    IF candidate \in names
    THEN UniqueFrom(names, stem, suffix,
                    stem \o <<"_">> \o IntStr(counter) \o suffix, counter + 1)
    ELSE candidate

ensure_unique_filename(names, filename) ==
    UniqueFrom(names, Stem(filename), Suffix(filename), filename, 1)

register_file_in_every_manifest(m, session_id, stored_name, original_name) ==
    [s \in DOMAIN m \cup {session_id} |->
        [n \in (IF s \in DOMAIN m THEN DOMAIN m[s] ELSE {}) \cup {stored_name} |->
            IF n = stored_name THEN original_name ELSE m[s][n]]]

\* manifest[stored_name] = original_name on the manifest of the session,
\* created empty when the session has none (setdefault)
register_file(m, session_id, stored_name, original_name) ==
    [s \in DOMAIN m \cup {session_id} |->
        [n \in (IF s \in DOMAIN m THEN DOMAIN m[s] ELSE {})
                 \cup (IF s = session_id THEN {stored_name} ELSE {}) |->
            IF s = session_id /\ n = stored_name THEN original_name ELSE m[s][n]]]

\* the early return and the raise of save_uploaded_file
Accepted(upload, expected_suffix) ==
    /\ upload.filename # <<>>
    /\ EndsWith(Lower(upload.filename), expected_suffix)
    /\ ~(upload.size > MAX_UPLOAD_SIZE)

FileNotFoundError == [raised |-> "FileNotFoundError"]

\* resolve_path: the file of that name in the directory of the session
resolve_path(dir, session_id, filename) ==
    IF <<session_id, filename>> \in dir
    THEN [path |-> <<session_id, filename>>]
    ELSE FileNotFoundError

(***************************************************************************)
(* Specification of upload sessions.  secrets.token_urlsafe(16) is taken   *)
(* to return a token it has not returned before.                           *)
(***************************************************************************)
Tokens == {<<"s">> \o IntStr(k) : k \in 1..MaxSessions}

UploadNames ==
    {<<"a">> \o ExtPuml, <<"a", " ", "1">> \o ExtPuml, <<"a">> \o ExtJson}

Uploads ==
    {[filename |-> n, size |-> z] :
        n \in UploadNames, z \in {MAX_UPLOAD_SIZE, MAX_UPLOAD_SIZE + 1}}

Returned == {session_ids[k] : k \in 1..Len(session_ids)}

InitSessions ==
    /\ pc = "sessions"
    /\ ComparisonIdle
    /\ BatchIdle
    /\ PairingIdle
    /\ SessionsIdle
    /\ NormalizeIdle
    /\ ParseIdle
    /\ RestIdle

InitSession ==
    /\ Len(session_ids) < MaxSessions
    /\ \E session_id \in Tokens \ Returned :
          /\ session_ids' = Append(session_ids, session_id)
          /\ manifests' = [s \in DOMAIN manifests \cup {session_id} |->
                              IF s = session_id THEN <<>> ELSE manifests[s]]
    /\ UNCHANGED <<pc, comparison_vars, batch_vars, pairing_vars, uploads_dir,
                   saved, normalize_vars, parse_vars, rest_vars>>

\* save_uploaded_file past its early return and its raise
SaveAs(upload, session_id, stored_name) ==
    /\ uploads_dir' = uploads_dir \cup {<<session_id, stored_name>>}
    /\ manifests' = register_file(manifests, session_id, stored_name,
                                  upload.filename)
    /\ saved' = Append(saved, [session_id |-> session_id,
                               record |-> Stored(stored_name, upload.filename)])

SaveUploadedFile ==
    /\ Len(saved) < MaxSaved
    /\ \E upload \in Uploads, expected_suffix \in {ExtPuml, ExtJson},
          session_id \in Returned :
          /\ Accepted(upload, expected_suffix)
          /\ SaveAs(upload, session_id,
                    ensure_unique_filename(SessionDir(uploads_dir, session_id),
                                           sanitize_filename(upload.filename)))
    /\ UNCHANGED <<pc, comparison_vars, batch_vars, pairing_vars, session_ids,
                   normalize_vars, parse_vars, rest_vars>>

NextSessions == InitSession \/ SaveUploadedFile

SpecSessions == InitSessions /\ [][NextSessions]_vars

(***************************************************************************)
(* The life of a session: store_results, load_results, cleanup_session.    *)
(* A payload is written as JSON and read back; the payloads of the model   *)
(* are dictionaries with string keys holding lists of numbers, which       *)
(* json.dumps and json.loads give back as they were.                       *)
(***************************************************************************)
\* UPLOAD_DIR / session_id is the directory of the session sid, or a
\* directory that contains it: UPLOAD_DIR itself for ".", its parent for ".."
DirCovers(session_id, sid) ==
    \/ session_id = sid
    \/ session_id = <<".">>
    \/ session_id = <<".", ".">>

\* shutil.rmtree(UPLOAD_DIR / session_id) on the uploaded files
RemoveTree(dir, session_id) == {f \in dir : ~DirCovers(session_id, f[1])}

\* shutil.rmtree(UPLOAD_DIR / session_id) on the results.json files
RemoveResults(files, session_id) ==
    [s \in {t \in DOMAIN files : ~DirCovers(session_id, t)} |-> files[s]]

\* _manifests.pop(session_id, None), also d.pop(key, None) of a ghost
Pop(m, session_id) == [s \in DOMAIN m \ {session_id} |-> m[s]]

\* (session_dir / "results.json").write_text(json.dumps(payload))
store_results(files, session_id, payload) ==
    [s \in DOMAIN files \cup {session_id} |->
        IF s = session_id THEN payload ELSE files[s]]

\* None when there is no results.json, else json.loads of its text
load_results(files, session_id) ==
    IF session_id \in DOMAIN files THEN files[session_id] ELSE NoEntry

Payloads == {[chart_scores |-> <<>>], [chart_scores |-> <<Hundred>>]}

\* the session ids a request can carry: issued ones, an unknown one, and
\* the two relative directory names
SessionIdStrings == Tokens \cup {<<"x">>, <<".">>, <<".", ".">>}

\* run_comparison stores the payload of a session that has a manifest with
\* entries (main.py 120-121, 218)
StoreResults ==
    /\ \E session_id \in Returned, payload \in Payloads :
          /\ session_id \in DOMAIN manifests
          /\ manifests[session_id] # <<>>
          /\ results_files' = store_results(results_files, session_id, payload)
          /\ kept' = [s \in DOMAIN kept \cup {session_id} |->
                         IF s = session_id THEN payload ELSE kept[s]]
    /\ UNCHANGED <<pc, comparison_vars, batch_vars, pairing_vars, session_vars,
                   normalize_vars, parse_vars, score_vars, attribute_vars, saving, cleaning>>

\* cleanup_session(session_id)
CleanupSessionOf(session_id) ==
    /\ uploads_dir' = RemoveTree(uploads_dir, session_id)
    /\ results_files' = RemoveResults(results_files, session_id)
    /\ manifests' = Pop(manifests, session_id)
    /\ kept' = [s \in DOMAIN kept \ {session_id} |-> kept[s]]
    /\ UNCHANGED <<pc, comparison_vars, batch_vars, pairing_vars, session_ids,
                   saved, normalize_vars, parse_vars, score_vars, attribute_vars, saving, cleaning>>

CleanupSession == \E session_id \in SessionIdStrings : CleanupSessionOf(session_id)

NextLifecycle == InitSession \/ SaveUploadedFile \/ StoreResults \/ CleanupSession

SpecLifecycle == InitSessions /\ [][NextLifecycle]_vars

(***************************************************************************)
(* save_uploaded_file and cleanup_session of two threads.  Only the        *)
(* manifest operations hold the lock: a save writes its file and then      *)
(* registers it, a cleanup removes the directory and then pops the         *)
(* manifest, and steps of the other thread may come in between.            *)
(***************************************************************************)
\* lines 108-116: the file is written under its unique name
WriteAs(upload, session_id, stored_name) ==
    /\ uploads_dir' = uploads_dir \cup {<<session_id, stored_name>>}
    /\ saving' = [session_id |-> session_id,
                  record |-> Stored(stored_name, upload.filename)]

WriteUpload ==
    /\ saving = NoEntry
    /\ Len(saved) < MaxSaved
    /\ \E upload \in Uploads, expected_suffix \in {ExtPuml, ExtJson},
          session_id \in Returned :
          /\ Accepted(upload, expected_suffix)
          /\ WriteAs(upload, session_id,
                     ensure_unique_filename(SessionDir(uploads_dir, session_id),
                                            sanitize_filename(upload.filename)))
    /\ UNCHANGED <<pc, comparison_vars, batch_vars, pairing_vars, session_ids,
                   manifests, saved, normalize_vars, parse_vars, score_vars, attribute_vars, results_files,
                   kept, cleaning>>

\* lines 118-119
RegisterUpload ==
    /\ saving # NoEntry
    /\ manifests' = register_file(manifests, saving.session_id,
                                  saving.record.filename, saving.record.label)
    /\ saved' = Append(saved, saving)
    /\ saving' = NoEntry
    /\ UNCHANGED <<pc, comparison_vars, batch_vars, pairing_vars, session_ids,
                   uploads_dir, normalize_vars, parse_vars, score_vars, attribute_vars, results_files, kept,
                   cleaning>>

\* lines 43-45
RemoveSessionDir ==
    /\ cleaning = NoEntry
    /\ \E session_id \in Returned :
          /\ uploads_dir' = RemoveTree(uploads_dir, session_id)
          /\ results_files' = RemoveResults(results_files, session_id)
          /\ cleaning' = [session_id |-> session_id]
    /\ UNCHANGED <<pc, comparison_vars, batch_vars, pairing_vars, session_ids,
                   manifests, saved, normalize_vars, parse_vars, score_vars, attribute_vars, kept, saving>>

\* lines 46-47
PopSession ==
    /\ cleaning # NoEntry
    /\ manifests' = Pop(manifests, cleaning.session_id)
    /\ cleaning' = NoEntry
    /\ UNCHANGED <<pc, comparison_vars, batch_vars, pairing_vars, session_ids,
                   uploads_dir, saved, normalize_vars, parse_vars, score_vars, attribute_vars, results_files,
                   kept, saving>>

NextThreads ==
    InitSession \/ WriteUpload \/ RegisterUpload \/ RemoveSessionDir \/ PopSession

SpecThreads == InitSessions /\ [][NextThreads]_vars

(***************************************************************************)
(* Specification of repeated normalization: normalize_attribute applied to *)
(* a raw string and then to its own result.                                *)
(***************************************************************************)
RawChars == {"+", "-", " ", ":", "a"}

InitNormalize ==
    /\ pc = "raw"
    /\ ComparisonIdle
    /\ BatchIdle
    /\ PairingIdle
    /\ SessionsIdle
    /\ attr_raw \in SeqsUpTo(RawChars, MaxRawLen)
    /\ attr_once = <<>>
    /\ attr_twice = <<>>
    /\ ParseIdle
    /\ RestIdle

Normalize ==
    /\ pc = "raw"
    /\ pc' = "once"
    /\ attr_once' = normalize_attribute(attr_raw)
    /\ UNCHANGED <<comparison_vars, batch_vars, pairing_vars, session_vars,
                   attr_raw, attr_twice, parse_vars, rest_vars>>

NormalizeAgain ==
    /\ pc = "once"
    /\ pc' = "twice"
    /\ attr_twice' = normalize_attribute(attr_once)
    /\ UNCHANGED <<comparison_vars, batch_vars, pairing_vars, session_vars,
                   attr_raw, attr_once, parse_vars, rest_vars>>

NextNormalize == Normalize \/ NormalizeAgain

SpecNormalize == InitNormalize /\ [][NextNormalize]_vars

(***************************************************************************)
(* normalize_attribute_scores (src/src/services.py).  The results are the  *)
(* dictionaries the comparisons and the handlers build: with an            *)
(* "attributes" record of six fields, or without one.                      *)
(***************************************************************************)
NeutralScores_if_either_zero(entry) ==
    IF "attributes" \notin DOMAIN entry THEN entry
    ELSE IF entry.attributes.etalon_count = 0 \/ entry.attributes.student_count = 0
         THEN [entry EXCEPT !.attributes =
                  [@ EXCEPT !.precision = One, !.recall = One, !.f1 = One]]
    ELSE entry

\* one iteration of the loop, lines 155-162
NeutralScores(entry) ==
    IF "attributes" \notin DOMAIN entry THEN entry
    ELSE IF entry.attributes.etalon_count = 0 /\ entry.attributes.student_count = 0
         THEN [entry EXCEPT !.attributes =
                  [@ EXCEPT !.precision = One, !.recall = One, !.f1 = One]]
    ELSE entry

RECURSIVE normalize_attribute_scores(_)
normalize_attribute_scores(results) ==
    IF results = <<>> THEN <<>>
    ELSE <<NeutralScores(Head(results))>> \o normalize_attribute_scores(Tail(results))

(***************************************************************************)
(* Specification of score normalization.                                   *)
(***************************************************************************)
AttributeScores ==
    {[precision |-> p, recall |-> Zero, f1 |-> Zero,
      etalon_count |-> e, student_count |-> c, matched |-> 0] :
        p \in {Zero, Rat(1, 2)}, e \in 0..1, c \in 0..1}

ScoredResults ==
    {[similarity |-> Zero, score |-> Zero, attributes |-> a] : a \in AttributeScores}
        \cup {[similarity |-> Zero, score |-> Zero, error |-> "not found"]}

InitScores ==
    /\ pc = "scores"
    /\ ComparisonIdle
    /\ BatchIdle
    /\ PairingIdle
    /\ SessionsIdle
    /\ NormalizeIdle
    /\ ParseIdle
    /\ LifecycleIdle
    /\ AttributesIdle
    /\ comparisons \in SeqsUpTo(ScoredResults, MaxComparisons)
    /\ normalized = <<>>

NormalizeScores ==
    /\ pc = "scores"
    /\ pc' = "scores_done"
    /\ normalized' = normalize_attribute_scores(comparisons)
    /\ UNCHANGED <<comparison_vars, batch_vars, pairing_vars, session_vars,
                   normalize_vars, parse_vars, lifecycle_vars, attribute_vars,
                   comparisons>>

NextScores == NormalizeScores

SpecScores == InitScores /\ [][NextScores]_vars

(***************************************************************************)
(* _match_attributes called on two attribute lists and a threshold, as the *)
(* comparisons call it for every pair of classes.                          *)
(***************************************************************************)
AttrC == <<"-", " ", "a", ":", " ", "s">>

\* attribute strings with ratios 0.5 (AttrA, AttrB), 0.667 (AttrB, AttrC)
\* and 0.833 (AttrA, AttrC)
ListedAttrs == {AttrA, AttrB, AttrC}

MatchThresholds == {Rat(1, 2), Rat(3, 4), DefaultAttrThreshold}

InitAttributes ==
    /\ pc = "attrs"
    /\ ComparisonIdle
    /\ BatchIdle
    /\ PairingIdle
    /\ SessionsIdle
    /\ NormalizeIdle
    /\ ParseIdle
    /\ LifecycleIdle
    /\ ScoresIdle
    /\ etalon_list \in SeqsUpTo(ListedAttrs, MaxListedAttrs)
    /\ student_list \in SeqsUpTo(ListedAttrs, MaxListedAttrs)
    /\ match_threshold \in MatchThresholds
    /\ matching = NoEntry
    /\ matched_pairs = <<>>

MatchAttributes ==
    /\ pc = "attrs"
    /\ pc' = "attrs_done"
    /\ matching' = match_attributes(etalon_list, student_list, match_threshold)
    /\ matched_pairs' = MatchedAttrPairs(etalon_list, student_list,
                                         match_threshold, 1, {})
    /\ UNCHANGED <<comparison_vars, batch_vars, pairing_vars, session_vars,
                   normalize_vars, parse_vars, lifecycle_vars, score_vars,
                   etalon_list, student_list, match_threshold>>

NextAttributes == MatchAttributes

SpecAttributes == InitAttributes /\ [][NextAttributes]_vars

(***************************************************************************)
(* parse_json_diagram, on the "entities" list of the loaded document.  An  *)
(* entity is a record of its "name", "attributes" and "methods" values, a  *)
(* missing list being the empty list.                                      *)
(***************************************************************************)
RECURSIVE SubAround(_, _, _)
\* re.sub(r"\s*c\s*", repl, s) for a character c
SubAround(s, c, repl) ==
    IF s = <<>> THEN <<>>
    ELSE IF LStrip(s) # <<>> /\ Head(LStrip(s)) = c
         THEN repl \o SubAround(LStrip(Tail(LStrip(s))), c, repl)
    ELSE <<Head(s)>> \o SubAround(Tail(s), c, repl)

\* lines 132-144 on the stripped method; splitting at the first ": " and
\* joining the two parts with ": " gives the string back
CleanStripped(meth) ==
    IF meth # <<>> /\ meth[1] \in VisibilityChars THEN meth
    ELSE <<"+", " ">>
            \o SubAround(SubAround(SubAround(meth, ":", <<":", " ">>),
                                    "(", <<"(">>),
                          ")", <<")">>)

RECURSIVE CleanAll(_)
CleanAll(methods) ==
    IF methods = <<>> THEN <<>>
    ELSE <<CleanStripped(Strip(Head(methods)))>> \o CleanAll(Tail(methods))

\* classes[name] = ClassInfo(name, attributes, methods)
ParsedEntity(name, entity) ==
    <<name, ClassInfo(name, NormalizeAll(entity.attributes),
                      CleanAll(entity.methods))>>

RECURSIVE ParseFrom(_, _, _)
ParseFrom(document, k, classes) ==
    IF k > Len(document) THEN classes
    ELSE ParseFrom(document, k + 1,
                   DictSet(classes, Strip(document[k].name),
                           ParsedEntity(Strip(document[k].name), document[k])[2]))

parse_json_diagram(document) == ParseFrom(document, 1, <<>>)

(***************************************************************************)
(* Specification of parsing: documents whose entities all have a name.     *)
(***************************************************************************)
EntityNames == {NameOrder, <<" ", "x", " ">>, <<" ">>}
EntityAttributes == {<<>>, <<AttrA>>, <<<<"b">>>>}
EntityMethods == {<<>>, <<<<"~", "m", "(", ")">>>>, <<<<"m", " ", "(", " ", ")", " ", ":", "i">>>>}

Entities ==
    {[name |-> n, attributes |-> a, methods |-> m] :
        n \in EntityNames, a \in EntityAttributes, m \in EntityMethods}

InitParse ==
    /\ pc = "document"
    /\ ComparisonIdle
    /\ BatchIdle
    /\ PairingIdle
    /\ SessionsIdle
    /\ NormalizeIdle
    /\ entities \in SeqsUpTo(Entities, MaxEntities)
    /\ parsed = <<>>
    /\ RestIdle

ParseJson ==
    /\ pc = "document"
    /\ pc' = "parsed"
    /\ parsed' = parse_json_diagram(entities)
    /\ UNCHANGED <<comparison_vars, batch_vars, pairing_vars, session_vars,
                   normalize_vars, entities, rest_vars>>

NextParse == ParseJson

SpecParse == InitParse /\ [][NextParse]_vars

(***************************************************************************)
(* Properties of single comparisons (specification Spec).                  *)
(***************************************************************************)
JsonDone == pc = "json_done"
PumlDone == pc = "puml_done"
Done == JsonDone \/ PumlDone

\* the result carries the metrics (it is not one of the degenerate results)
HasMetrics == Done /\ "classes" \in DOMAIN result

\* C1: in both variants no candidate class is matched to more than one
\* reference class: the recorded class alignment is injective.
C1_OneToOneMatching ==
    Done =>
        \A i, j \in 1..Len(class_pairs) :
            class_pairs[i][2] = class_pairs[j][2] => i = j

\* C2: the result of either variant has 0.0 <= similarity <= 1.0 and
\* 0 <= score <= 100.
C2_SimilarityAndScoreRanges ==
    Done =>
        /\ RLe(Zero, result.similarity) /\ RLe(result.similarity, One)
        /\ "score" \in DOMAIN result =>
                RLe(Zero, result.score) /\ RLe(result.score, Hundred)

\* the names of a model stay pairwise different when lower-cased
NamesUniqueIgnoringCase(classes) ==
    \A i, j \in 1..Len(classes) :
        Lower(classes[i].name) = Lower(classes[j].name) => i = j

\* C3: comparing a non-empty model (names unique even ignoring case) with an
\* identical candidate, at the default thresholds, gives classes.f1 = 1.0,
\* attributes.f1 = 1.0 and score = 100.0, in both variants.
C3_IdenticalModelsScoreFull ==
    (/\ Done
     /\ etalon # <<>>
     /\ NamesUniqueIgnoringCase(etalon)
     /\ student = etalon
     /\ class_threshold = DefaultClassThreshold
     /\ attr_threshold = DefaultAttrThreshold)
    => /\ HasMetrics
       /\ result.classes.f1 = One
       /\ result.attributes.f1 = One
       /\ result.score = Hundred

\* C4: in the markup-candidate variant with both models non-empty, similarity
\* is the F1 of the averaged facet metrics, P = (Pc+Pa)/2 and R = (Rc+Ra)/2,
\* and 0 when P+R = 0.
C4_SimilarityIsF1OfAverages ==
    (PumlDone /\ etalon # <<>> /\ student # <<>>) =>
        LET p == RDiv(RAdd(result.classes.precision,
                           result.attributes.precision), Two)
            r == RDiv(RAdd(result.classes.recall,
                           result.attributes.recall), Two)
        IN  result.similarity =
                (IF RLt(Zero, RAdd(p, r))
                 THEN RDiv(RMul(Two, RMul(p, r)), RAdd(p, r))
                 ELSE Zero)

C9_ScoreIsSimilarityTimes100 ==
    Done =>
        /\ "score" \in DOMAIN result
        /\ result.score = RMul(result.similarity, Hundred)

\* C10: when the attribute totals are not both zero, attribute precision is
\* matched / candidate total (0 if that total is 0), recall is matched /
\* reference total (0 if that total is 0) and F1 = 2PR/(P+R) (0 if P+R = 0),
\* in both variants.
C10_AttributeMetrics ==
    (/\ HasMetrics
     /\ ~(result.attributes.etalon_count = 0
            /\ result.attributes.student_count = 0))
    => LET a == result.attributes
           p == IF a.student_count = 0 THEN Zero
                ELSE Rat(a.matched, a.student_count)
           r == IF a.etalon_count = 0 THEN Zero
                ELSE Rat(a.matched, a.etalon_count)
       IN  /\ a.precision = p
           /\ a.recall = r
           /\ a.f1 = (IF RLt(Zero, RAdd(p, r))
                      THEN RDiv(RMul(Two, RMul(p, r)), RAdd(p, r))
                      ELSE Zero)

\* C11: the class metrics of a result are precision = matched / candidate
\* class count (0 for an empty candidate), recall = matched / reference class
\* count and F1 = 2PR/(P+R) (0 if P+R = 0), where matched is the number of
\* pairs recorded by the class alignment, in both variants.
C11_ClassMetrics ==
    HasMetrics =>
        LET c == result.classes
            n == Len(class_pairs)
            p == IF student = <<>> THEN Zero ELSE Rat(n, Len(student))
            r == Rat(n, Len(etalon))
        IN  /\ c.matched = n
            /\ c.precision = p
            /\ c.recall = r
            /\ c.f1 = (IF RLt(Zero, RAdd(p, r))
                       THEN RDiv(RMul(Two, RMul(p, r)), RAdd(p, r))
                       ELSE Zero)

\* two reference classes of which the single candidate class matches one:
\* recall 0.5, precision 1.0 and F1 = 2/3
C11_Witness ==
    /\ HasMetrics
    /\ Len(etalon) = 2
    /\ Len(student) = 1
    /\ Len(class_pairs) = 1
    /\ result.classes.recall = Rat(1, 2)
    /\ result.classes.precision = One
    /\ result.classes.f1 = Rat(2, 3)

\* no class of the model has an attribute
NoAttributes(classes) ==
    \A k \in 1..Len(classes) : classes[k].attributes = <<>>

\* C12: if every class of both models has zero attributes, the attribute
\* precision, recall and F1 of the result are all 1.0, in both variants.
C12_ZeroAttributeNeutrality ==
    (HasMetrics /\ NoAttributes(etalon) /\ NoAttributes(student)) =>
        /\ result.attributes.precision = One
        /\ result.attributes.recall = One
        /\ result.attributes.f1 = One

\* two attribute-less models of the markup variant with a class unmatched on
\* each side
C12_Witness ==
    /\ PumlDone
    /\ HasMetrics
    /\ NoAttributes(etalon)
    /\ NoAttributes(student)
    /\ Len(etalon) = MaxEtalonClasses
    /\ Len(student) = MaxStudentClasses
    /\ result.diff.classes.missing # <<>>
    /\ result.diff.classes.extra # <<>>
    /\ result.attributes.f1 = One

\* C14: class names are compared ignoring letter case: when a candidate
\* class has the name of the first reference class up to letter case (and the
\* candidate names are unique ignoring case), the alignment at the default
\* threshold pairs the two, in both variants.
C14_CaseInsensitiveClassNames ==
    (/\ Done
     /\ class_threshold = DefaultClassThreshold
     /\ etalon # <<>>
     /\ NamesUniqueIgnoringCase(student)
     /\ \E j \in 1..Len(student) :
            Lower(student[j].name) = Lower(etalon[1].name))
    => /\ class_pairs # <<>>
       /\ Lower(class_pairs[1][1]) = Lower(etalon[1].name)
       /\ Lower(class_pairs[1][2]) = Lower(etalon[1].name)

\* the harmonic mean 2PR/(P+R), 0 when P+R = 0
HarmonicMean(p, r) ==
    IF RLt(Zero, RAdd(p, r)) THEN RDiv(RMul(Two, RMul(p, r)), RAdd(p, r)) ELSE Zero

\* C19: in the record-candidate variant with a non-empty reference,
\* similarity = 0.6 * F1 of the classes + 0.4 * F1 of the attributes, each F1
\* being the harmonic mean of the reported precision and recall of its facet.
C19_JsonSimilarityWeights ==
    (JsonDone /\ etalon # <<>>) =>
        /\ result.classes.f1 =
              HarmonicMean(result.classes.precision, result.classes.recall)
        /\ result.attributes.f1 =
              HarmonicMean(result.attributes.precision, result.attributes.recall)
        /\ result.similarity =
              RAdd(RMul(Rat(6, 10), result.classes.f1),
                   RMul(Rat(4, 10), result.attributes.f1))

\* all classes matched and none of the attributes: 0.6 * 1 + 0.4 * 0
C19_Witness ==
    /\ JsonDone
    /\ etalon # <<>>
    /\ result.classes.f1 = One
    /\ result.attributes.f1 = Zero
    /\ result.similarity = Rat(6, 10)

\* C20: in the markup-candidate variant a non-empty reference compared with
\* an empty candidate gives a result and not an exception: a note,
\* similarity 0.0 and score 0.0, and nothing else.
C20_EmptyCandidatePuml ==
    (PumlDone /\ etalon # <<>> /\ student = <<>>) =>
        /\ DOMAIN result = {"error", "similarity", "score"}
        /\ result.error = "second diagram is empty"
        /\ result.similarity = Zero
        /\ result.score = Zero

C20_Witness ==
    /\ PumlDone
    /\ Len(etalon) = MaxEtalonClasses
    /\ etalon[1].attributes # <<>>
    /\ student = <<>>
    /\ "error" \in DOMAIN result
    /\ result.score = Zero

\* C23: the attribute pass compares the attributes of exactly the class
\* pairs of the class alignment: each compared pair is an aligned pair (so a
\* reference class without a partner is compared with nothing and all its
\* attributes are missing), and each aligned pair is compared.
C23_AttributesWithinClassPairs ==
    HasMetrics =>
        /\ \A i \in 1..Len(attr_pairs) :
              \E j \in 1..Len(class_pairs) : class_pairs[j] = attr_pairs[i]
        /\ \A j \in 1..Len(class_pairs) :
              \E i \in 1..Len(attr_pairs) : attr_pairs[i] = class_pairs[j]

RECURSIVE AttributeTotal(_)
\* the number of attributes of all the classes of a model
AttributeTotal(classes) ==
    IF classes = <<>> THEN 0
    ELSE Len(Head(classes).attributes) + AttributeTotal(Tail(classes))

\* C24: in both variants the reference attribute total is the sum of the
\* attribute counts of all reference classes and the candidate attribute
\* total the sum over all candidate classes, matched or not.
C24_AttributeTotals ==
    HasMetrics =>
        /\ result.attributes.etalon_count = AttributeTotal(etalon)
        /\ result.attributes.student_count = AttributeTotal(student)

\* C25: the class diff partitions both models: the matched reference classes
\* and diff.classes.missing are disjoint and add up to classes.etalon_count,
\* the matched candidate classes and diff.classes.extra are disjoint and add
\* up to classes.student_count.
C25_ClassDiffPartition ==
    HasMetrics =>
        /\ result.classes.matched + Len(result.diff.classes.missing)
                = result.classes.etalon_count
        /\ result.classes.matched + Len(result.diff.classes.extra)
                = result.classes.student_count
        /\ \A i \in 1..Len(class_pairs) :
              /\ \A k \in 1..Len(result.diff.classes.missing) :
                    result.diff.classes.missing[k] # class_pairs[i][1]
              /\ \A k \in 1..Len(result.diff.classes.extra) :
                    result.diff.classes.extra[k] # class_pairs[i][2]

RECURSIVE Reversed(_)
\* the classes of a model in the opposite order
Reversed(classes) ==
    IF classes = <<>> THEN <<>>
    ELSE Append(Reversed(Tail(classes)), Head(classes))

\* the orders in which the classes of a model can be enumerated
Orders(classes) == {classes, Reversed(classes)}

\* the matched counts, precision, recall, F1 and similarity of a result
Metrics(r) ==
    IF "classes" \in DOMAIN r
    THEN <<r.similarity,
           r.classes.matched, r.classes.precision,
           r.classes.recall, r.classes.f1,
           r.attributes.matched, r.attributes.precision,
           r.attributes.recall, r.attributes.f1>>
    ELSE <<r.similarity>>

\* C26: the metrics do not depend on the order of the classes: comparing the
\* same two models with the reference or the candidate classes enumerated
\* in another order gives the same matched counts, precision, recall, F1
\* and similarity.
C26_OrderIndependentMetrics ==
    /\ JsonDone =>
          \A e \in Orders(etalon), s \in Orders(student) :
              Metrics(compare_puml_with_json(e, s, class_threshold,
                                             attr_threshold))
                  = Metrics(result)
    /\ PumlDone =>
          \A e \in Orders(etalon), s \in Orders(student) :
              Metrics(compare_puml_with_puml(e, s, class_threshold,
                                             attr_threshold))
                  = Metrics(result)

\* C27: in the markup-candidate variant, when both models are non-empty, no
\* reference class is matched to a candidate class and both models have at
\* least one attribute, the similarity is 0.0 and the score is 0.
C27_NothingMatchedScoresZero ==
    (/\ PumlDone
     /\ etalon # <<>>
     /\ student # <<>>
     /\ class_pairs = <<>>
     /\ AttributeTotal(etalon) > 0
     /\ AttributeTotal(student) > 0)
    => /\ result.similarity = Zero
       /\ result.score = Zero

(***************************************************************************)
(* Properties of repeated comparisons (specification SpecThreshold).       *)
(***************************************************************************)
ComparedAgain == pc \in {"json_again", "puml_again"}

\* C13: for a fixed pair of models and class thresholds t <= t', the number
\* of matched classes obtained with t' is at most the number obtained with t,
\* in both variants; a threshold above 1.0 never gives more matches than a
\* lower one.
C13_MonotonicThresholding ==
    ComparedAgain =>
        /\ RLe(earlier.class_threshold, class_threshold)
        /\ Len(class_pairs) <= Len(earlier.class_pairs)
        /\ ("classes" \in DOMAIN result) = ("classes" \in DOMAIN earlier.result)
        /\ "classes" \in DOMAIN result =>
                result.classes.matched <= earlier.result.classes.matched

\* two classes matched at threshold 0.5, none of them at threshold 1.01
C13_Witness ==
    /\ pc = "puml_again"
    /\ RLt(One, class_threshold)
    /\ earlier.class_threshold = Rat(50, 100)
    /\ "classes" \in DOMAIN earlier.result
    /\ earlier.result.classes.matched = 2
    /\ result.classes.matched = 0

(***************************************************************************)
(* Properties of session pairing (specification SpecPairing).              *)
(***************************************************************************)
PairingDone == pc = "pairing_done"

\* the candidates paired with the reference entries before the i-th
UsedBefore(i) == {pairing.pairings[j].json : j \in 1..(i - 1)}

\* the indices of the candidates the i-th reference entry may take: not used
\* before and of the same stem up to letter case
Eligible(i) ==
    {k \in 1..Len(json_files) :
        /\ json_files[k] \notin UsedBefore(i)
        /\ Lower(Stem(json_files[k].label)) = Lower(Stem(puml_files[i].label))}

\* C15: auto_pair_files returns one pairing per reference entry, in order;
\* each pairs its entry with the first candidate not used by an earlier
\* pairing whose label stem equals the entry's up to letter case, and with
\* None when there is none; no candidate is in two pairings; the unmatched
\* list is the candidates that are in no pairing, in their order.
C15_AutoPairFiles ==
    PairingDone =>
        /\ Len(pairing.pairings) = Len(puml_files)
        /\ \A i \in 1..Len(puml_files) :
              /\ pairing.pairings[i].puml = puml_files[i]
              /\ IF Eligible(i) = {}
                 THEN pairing.pairings[i].json = NoEntry
                 ELSE \E k \in Eligible(i) :
                        /\ \A m \in Eligible(i) : k <= m
                        /\ pairing.pairings[i].json = json_files[k]
        /\ \A i, j \in 1..Len(pairing.pairings) :
              (/\ pairing.pairings[i].json # NoEntry
               /\ pairing.pairings[i].json = pairing.pairings[j].json) => i = j
        /\ pairing.unmatched_json =
              SelectSeq(json_files,
                        LAMBDA c : c \notin UsedBefore(Len(puml_files) + 1))

\* two reference entries of the same stem up to case and two candidates, one
\* whose stem only contains it: the first entry takes the equal stem, the
\* second gets None, the other candidate is left unmatched
C15_Witness ==
    /\ PairingDone
    /\ Len(puml_files) = 2 /\ Len(json_files) = 2
    /\ puml_files[1].label = <<"A">> \o ExtPuml
    /\ puml_files[2].label = <<"a">> \o ExtPuml
    /\ json_files[1].label = <<"a", "_", "d">> \o ExtJson
    /\ pairing.pairings[1].json = json_files[2]
    /\ pairing.pairings[2].json = NoEntry
    /\ pairing.unmatched_json = <<json_files[1]>>

(***************************************************************************)
(* Properties of upload sessions (specification SpecSessions).             *)
(***************************************************************************)
\* the stored names of the files saved in a session
SavedIn(session_id) ==
    {saved[h].record.filename :
        h \in {g \in 1..Len(saved) : saved[g].session_id = session_id}}

DistinctIds ==
    \A i, j \in 1..Len(session_ids) : session_ids[i] = session_ids[j] => i = j

FreshStaysEmpty ==
    \A b \in Returned : SavedIn(b) = {} => manifests[b] = <<>>

\* C16: the ids returned by init_session are pairwise different; a file saved
\* in a session is in the manifest of that session and its stored name is
\* in the manifest of no other session; the manifest of a session without
\* saved files is empty; resolve_path of that stored name under any other
\* session raises FileNotFoundError.
C16_SessionIsolation ==
    /\ DistinctIds
    /\ FreshStaysEmpty
    /\ \A h \in 1..Len(saved) :
          /\ saved[h].record.filename \in DOMAIN manifests[saved[h].session_id]
          /\ \A b \in Returned \ {saved[h].session_id} :
                /\ saved[h].record.filename \notin DOMAIN manifests[b]
                /\ resolve_path(uploads_dir, b, saved[h].record.filename)
                      = FileNotFoundError

\* C16 as amended: the stored name of a file saved in a session is in the
\* manifest of another session only when that session saved a file of its
\* own under that name, and only then does resolve_path under that session
\* not raise: it returns the path in the directory of that session.
C16_SessionIsolationOwnFiles ==
    /\ DistinctIds
    /\ FreshStaysEmpty
    /\ \A h \in 1..Len(saved) :
          /\ saved[h].record.filename \in DOMAIN manifests[saved[h].session_id]
          /\ manifests[saved[h].session_id][saved[h].record.filename]
                = saved[h].record.label
          /\ \A b \in Returned \ {saved[h].session_id} :
                /\ saved[h].record.filename \in DOMAIN manifests[b]
                      => saved[h].record.filename \in SavedIn(b)
                /\ resolve_path(uploads_dir, b, saved[h].record.filename)
                      = IF saved[h].record.filename \in SavedIn(b)
                        THEN [path |-> <<b, saved[h].record.filename>>]
                        ELSE FileNotFoundError

\* two sessions hold a file stored as a.puml each; the first also holds
\* a_1.puml, which the second does not
C16_Witness ==
    /\ Len(session_ids) = 2 /\ Len(saved) = 3
    /\ saved[1].session_id = session_ids[1]
    /\ saved[2].session_id = session_ids[2]
    /\ saved[3].session_id = session_ids[1]
    /\ saved[1].record.filename = <<"a">> \o ExtPuml
    /\ saved[2].record.filename = <<"a">> \o ExtPuml
    /\ saved[3].record.filename = <<"a", "_", "1">> \o ExtPuml
    /\ DOMAIN manifests[session_ids[2]] = {<<"a">> \o ExtPuml}
    /\ resolve_path(uploads_dir, session_ids[2], saved[3].record.filename)
          = FileNotFoundError

(***************************************************************************)
(* Properties of repeated normalization (specification SpecNormalize).     *)
(***************************************************************************)
\* C17: normalize_attribute is idempotent: normalizing a normalized
\* attribute string gives that string again.
C17_NormalizeIdempotent == pc = "twice" => attr_twice = attr_once

\* a raw string with a visibility, blanks around the name and a colon
C17_Witness ==
    /\ pc = "twice"
    /\ attr_raw = <<"+", "a", " ", ":">>
    /\ attr_once = <<"+", " ", "a", ":", " ">>
    /\ attr_twice = attr_once

(***************************************************************************)
(* Properties of parsing (specification SpecParse).                        *)
(***************************************************************************)
StartsWithVisibility(s) == s # <<>> /\ s[1] \in {"+", "-", "#", "~"}

\* C18: every class of a parsed document has a non-empty name, and each of
\* its attribute and method strings begins with a visibility marker.
C18_ParsedEntities ==
    pc = "parsed" =>
        \A k \in 1..Len(parsed) :
            /\ parsed[k][1] # <<>>
            /\ parsed[k][2].name # <<>>
            /\ \A i \in 1..Len(parsed[k][2].attributes) :
                  StartsWithVisibility(parsed[k][2].attributes[i])
            /\ \A i \in 1..Len(parsed[k][2].methods) :
                  StartsWithVisibility(parsed[k][2].methods[i])

(***************************************************************************)
(* Properties of the life of a session (specification SpecLifecycle).      *)
(***************************************************************************)
\* C21: load_results of a session returns the payload most recently stored
\* for it, and None when nothing has been stored for the session or the
\* session has been cleaned up since.
C21_StoreThenLoad ==
    \A session_id \in Returned :
        load_results(results_files, session_id) =
            IF session_id \in DOMAIN kept THEN kept[session_id] ELSE NoEntry

\* cleanup_session(session_id) leaves the stored files, the stored results
\* and the manifest of the session other as they are
KeepsSession(other) ==
    /\ SessionDir(uploads_dir', other) = SessionDir(uploads_dir, other)
    /\ load_results(results_files', other) = load_results(results_files, other)
    /\ other \in DOMAIN manifests =>
            /\ other \in DOMAIN manifests'
            /\ manifests'[other] = manifests[other]

\* C30: cleanup_session(s) removes only the directory and the manifest of
\* session s, whatever the string s is: the stored files, stored results and
\* manifests of every other session are unchanged.
C30_CleanupOnlyOwnSession ==
    [][\A session_id \in SessionIdStrings :
            CleanupSessionOf(session_id) =>
                \A other \in Returned \ {session_id} : KeepsSession(other)]_vars

(***************************************************************************)
(* Properties of interleaved saves and cleanups (specification SpecThreads).*)
(***************************************************************************)
\* no save_uploaded_file and no cleanup_session is under way
NothingUnderWay == saving = NoEntry /\ cleaning = NoEntry

\* C29: whatever the interleaving of save_uploaded_file and cleanup_session,
\* once both have returned every stored name in the manifest of a session
\* is a file of the directory of that session: no manifest entry outlives
\* its file and a cleaned-up session is not left with a manifest.
C29_ManifestEntriesHaveFiles ==
    NothingUnderWay =>
        \A s \in DOMAIN manifests :
            \A n \in DOMAIN manifests[s] : <<s, n>> \in uploads_dir

(***************************************************************************)
(* Properties of score normalization (specification SpecScores).           *)
(***************************************************************************)
\* the attribute counts of a result are both 0
NoAttributesCounted(r) ==
    /\ "attributes" \in DOMAIN r
    /\ r.attributes.etalon_count = 0
    /\ r.attributes.student_count = 0

\* C22: normalize_attribute_scores returns as many results in the same
\* order; a result whose attribute counts are both 0 has its attribute
\* precision, recall and f1 set to 1.0 and nothing else changed; every other
\* result, with other counts or without attributes, is returned as it was.
C22_NeutralAttributeScores ==
    pc = "scores_done" =>
        /\ Len(normalized) = Len(comparisons)
        /\ \A k \in 1..Len(comparisons) :
              IF NoAttributesCounted(comparisons[k])
              THEN /\ DOMAIN normalized[k] = DOMAIN comparisons[k]
                   /\ \A f \in DOMAIN comparisons[k] \ {"attributes"} :
                         normalized[k][f] = comparisons[k][f]
                   /\ normalized[k].attributes.precision = One
                   /\ normalized[k].attributes.recall = One
                   /\ normalized[k].attributes.f1 = One
                   /\ \A f \in {"etalon_count", "student_count", "matched"} :
                         normalized[k].attributes[f] = comparisons[k].attributes[f]
              ELSE normalized[k] = comparisons[k]

\* a result with counts 0 and 0 is made neutral, one with counts 1 and 0 is not
C22_Witness ==
    /\ pc = "scores_done"
    /\ Len(comparisons) = 2
    /\ NoAttributesCounted(comparisons[1])
    /\ comparisons[1].attributes.precision = Zero
    /\ normalized[1].attributes.f1 = One
    /\ "attributes" \in DOMAIN comparisons[2]
    /\ comparisons[2].attributes.etalon_count = 1
    /\ comparisons[2].attributes.student_count = 0
    /\ normalized[2] = comparisons[2]

(***************************************************************************)
(* Properties of _match_attributes (specification SpecAttributes).         *)
(***************************************************************************)
AttributesMatched == pc = "attrs_done"

\* C28: for every pair of lists and every threshold, each reference and each
\* candidate attribute takes part in at most one match, every match has a
\* ratio of at least the threshold, and the returned count plus len(missing)
\* is the number of reference attributes, the count plus len(extra) the
\* number of candidate attributes.
C28_MatchAttributesConserves ==
    AttributesMatched =>
        /\ \A i, j \in 1..Len(matched_pairs) :
              (\/ matched_pairs[i][1] = matched_pairs[j][1]
               \/ matched_pairs[i][2] = matched_pairs[j][2]) => i = j
        /\ \A i \in 1..Len(matched_pairs) :
              /\ matched_pairs[i][1] \in 1..Len(etalon_list)
              /\ matched_pairs[i][2] \in 1..Len(student_list)
              /\ RLe(match_threshold,
                     ratio(etalon_list[matched_pairs[i][1]],
                           student_list[matched_pairs[i][2]]))
        /\ matching.matched = Len(matched_pairs)
        /\ matching.matched + Len(matching.missing) = Len(etalon_list)
        /\ matching.matched + Len(matching.extra) = Len(student_list)

\* a candidate attribute is left as extra although it reaches the threshold
\* with a reference attribute, which an earlier candidate attribute took
C28_Witness ==
    /\ AttributesMatched
    /\ \E i \in 1..Len(matched_pairs) :
          \E s \in 1..Len(student_list) :
              /\ s \notin matching.matched_student
              /\ RLe(match_threshold,
                     ratio(etalon_list[matched_pairs[i][1]], student_list[s]))

(***************************************************************************)
(* Properties of batches (specification SpecBatch).                        *)
(***************************************************************************)
BatchDone == pc = "batch_done"

\* index of the first student file whose stem contains, or is contained in,
\* the stem of etalon file k (both lower-cased); 0 when there is none
FirstStemMatch(k) ==
    LET ok(c) ==
            \/ Contains(Lower(Stem(student_files[c].path)),
                        Lower(Stem(etalon_files[k].path)))
            \/ Contains(Lower(Stem(etalon_files[k].path)),
                        Lower(Stem(student_files[c].path)))
    IN  IF \E c \in 1..Len(student_files) : ok(c)
        THEN CHOOSE c \in 1..Len(student_files) :
                ok(c) /\ \A d \in 1..(c - 1) : ~ok(d)
        ELSE 0

\* parsing or comparing the pair of etalon file k raises
PairFails(k) ==
    /\ FirstStemMatch(k) # 0
    /\ \/ ~etalon_files[k].content.parses
       \/ ~student_files[FirstStemMatch(k)].content.parses

\* C5: compare_batch pairs each reference file with the first candidate file
\* whose lower-cased stem contains or is contained in the reference's, and no
\* candidate file is paired with more than one reference file of the batch.
C5_FirstMatchEachCandidateOnce ==
    (BatchDone /\ batch.status = "returned") =>
        /\ Len(batch.results) = Len(etalon_files)
        /\ \A k \in 1..Len(batch.results) :
                batch.results[k].student_file =
                    (IF FirstStemMatch(k) = 0 THEN StudentNotFound
                     ELSE student_files[FirstStemMatch(k)].path)
        /\ \A i, j \in 1..Len(batch.results) :
                (/\ i # j
                 /\ batch.results[i].student_file # StudentNotFound)
                => batch.results[i].student_file # batch.results[j].student_file

\* C6: a failure while parsing or comparing one pair gives an error outcome
\* for that pair only; the other pairs of the batch still get their results.
C6_FailureIsolatedToPair ==
    BatchDone =>
        /\ batch.status = "returned"
        /\ Len(batch.results) = Len(etalon_files)
        /\ \A k \in 1..Len(etalon_files) :
                PairFails(k) => "error" \in DOMAIN batch.results[k]

\* C7: compare_batch returns exactly one result per reference file, in
\* reference order; a reference file without matching candidate gets a
\* placeholder with similarity 0.0, score 0.0 and a "not found" note.
C7_OneResultPerReference ==
    BatchDone =>
        /\ Len(batch.results) = Len(etalon_files)
        /\ \A k \in 1..Len(etalon_files) :
                /\ batch.results[k].etalon_file = etalon_files[k].path
                /\ FirstStemMatch(k) = 0 =>
                        /\ batch.results[k].student_file = StudentNotFound
                        /\ "error" \in DOMAIN batch.results[k]
                        /\ batch.results[k].similarity = Zero
                        /\ batch.results[k].score = Zero

====
